---- MODULE Spec2Model ----
(***************************************************************************)
(* A model of the request rate limiter (app/api/middlewares/security.py)   *)
(* and of the token authentication core (app/services/auth.py,             *)
(* app/api/deps.py, app/api/endpoints/user.py) of the FastAPI template.    *)
(*                                                                         *)
(* Time is a single wall clock `now`, counted in ticks of 1/Res second, so *)
(* that the truncations the code performs (int(time.time()), the integer   *)
(* "exp" claim of a token) are modelled and not assumed away.              *)
(***************************************************************************)
EXTENDS Integers, Sequences, FiniteSets, TLC

\* ------------------------------------------------------------------ bounds
Res == 2         \* clock ticks per second
MaxTime == 4     \* the clock stops at this tick
MaxReq == 3      \* requests dispatched in one behaviour
MaxLimit == 2    \* largest configured rate limit
MaxUsers == 2    \* rows of the users table
MaxTtl == 2      \* largest expires_delta passed to the token service (ticks)
MaxIssue == 0    \* latest tick at which a token presented to SpecAuth was made
MaxServed == 1   \* requests sent through the pipeline
MaxHeaders == 3  \* headers of a response before the security-headers stage

\* ------------------------------------------------------------- vocabulary
None == "None"
Clients == {"10.0.0.1", None}          \* request.client.host, or no peer address
Paths == {"/login", "/me", "/health"}  \* request.url.path
Limits == 0 .. MaxLimit
WindowSizes == {1, 2}                  \* window_size (seconds)

\* str(i): the decimal text of an integer.  Distinct integers have distinct
\* texts, and the text is not the integer.
Str(i) == <<"str", i>>

\* int(time.time()): the clock truncated to whole seconds.
Sec(t) == t \div Res

\* An optional value: <<>> is Python's None, <<v>> the value v.
Nothing == <<>>
Some(v) == <<v>>

VARIABLES
  now,        \* the wall clock, in ticks
  cfg,        \* the RateLimitingMiddleware instance's configuration
  requests,   \* self._requests: key -> list of timestamps (in-memory mode)
  redis,      \* the Redis database: key -> [zset, expire_at]
  log,        \* history: one record per dispatched request, in dispatch order
  users,      \* the users table: id -> [email, hashed_password, is_active]
  authRes,    \* history: the last call of an auth endpoint and its outcome
  settings,   \* app.core.config.settings: [DEBUG]
  stages,     \* the configuration of the other middleware instances
  served,     \* history: the last request sent through the pipeline, its outcome
  applied,    \* history: the last operation applied on its own, and its result
  alerts      \* the ErrorLoggingMiddleware instance: thresholds, error_count, last_alert_time

vars == <<now, cfg, requests, redis, log, users, authRes, settings, stages, served, applied,
          alerts>>
rateVars == <<cfg, requests, redis, log>>
authVars == <<users, authRes>>
pipeVars == <<settings, stages, served, applied, alerts>>

\* ------------------------------------------------- RateLimitingMiddleware
DefaultExcludePaths == {"/health", "/metrics"}

\* __init__: `x or default` replaces None and every empty collection.
RateLimitingInit(redis_client, rate_limit, rate_limit_by_path, window_size, exclude_paths) ==
  [ redis |-> redis_client,
    rate_limit |-> rate_limit,
    rate_limit_by_path |-> IF rate_limit_by_path = Nothing THEN <<>>
                           ELSE rate_limit_by_path[1],
    window_size |-> window_size,
    exclude_paths |-> IF exclude_paths = Nothing \/ exclude_paths = Some({})
                      THEN DefaultExcludePaths ELSE exclude_paths[1] ]

\* A lookup that takes a declared override for every path.
GetRateLimitAnyPath(c, path) ==
  IF DOMAIN c.rate_limit_by_path # {}
  THEN c.rate_limit_by_path[CHOOSE p \in DOMAIN c.rate_limit_by_path : TRUE]
  ELSE c.rate_limit
\* _get_rate_limit: dict.get(path, default)
GetRateLimit(c, path) ==
  IF path \in DOMAIN c.rate_limit_by_path THEN c.rate_limit_by_path[path] ELSE c.rate_limit

\* A key that leaves the path out.
RateLimitKeyClientOnly(client_ip, path) == <<"rate_limit", client_ip, "">>
\* f"rate_limit:{client_ip}:{path}".  A path starts with "/" and an address
\* holds none, so the text determines the pair; the key is kept as the pair.
RateLimitKey(client_ip, path) == <<"rate_limit", client_ip, path>>

\* A stale read: the count is taken before the current timestamp is appended.
MemCheckStale(store, key, current_time, window_size) ==
  LET window_start == current_time - window_size
      old == IF key \in DOMAIN store THEN store[key] ELSE <<>>
      kept == SelectSeq(old, LAMBDA ts : ts > window_start)
      new == Append(kept, current_time)
  IN [ store |-> [k \in DOMAIN store \cup {key} |-> IF k = key THEN new ELSE store[k]],
       count |-> Len(kept) ]

\* The in-memory branch of _check_rate_limit: create the list when missing,
\* keep the timestamps newer than window_start, append the current one.
MemCheck(store, key, current_time, window_size) ==
  LET window_start == current_time - window_size
      old == IF key \in DOMAIN store THEN store[key] ELSE <<>>
      kept == SelectSeq(old, LAMBDA ts : ts > window_start)
      new == Append(kept, current_time)
  IN [ store |-> [k \in DOMAIN store \cup {key} |-> IF k = key THEN new ELSE store[k]],
       count |-> Len(new) ]

\* The Redis branch: one MULTI/EXEC pipeline of
\*   ZREMRANGEBYSCORE key 0 window_start ; ZADD key {str(now): now} ;
\*   ZCARD key ; EXPIRE key window_size.
\* A sorted set holds each member once: ZADD of a member already present
\* only updates its score.
\* A purge that spares the entry whose score is the upper end of the range.
ZRemRangeByScoreBelow(zset, lo, hi) == {e \in zset : ~(lo <= e.score /\ e.score < hi)}
ZRemRangeByScore(zset, lo, hi) == {e \in zset : ~(lo <= e.score /\ e.score <= hi)}
ZAdd(zset, member, score) ==
  {e \in zset : e.member # member} \cup {[member |-> member, score |-> score]}
RedisCheck(db, key, current_time, window_size, clock) ==
  LET window_start == current_time - window_size
      old == IF key \in DOMAIN db THEN db[key].zset ELSE {}
      purged == ZRemRangeByScore(old, 0, window_start)
      added == ZAdd(purged, Str(current_time), current_time)
      entry == [zset |-> added, expire_at |-> clock + window_size * Res]
  IN [ db |-> [k \in DOMAIN db \cup {key} |-> IF k = key THEN entry ELSE db[k]],
       count |-> Cardinality(added) ]

\* A check that permits only below the limit.
CheckRateLimitBelow(c, store, db, key, limit, clock) ==
  LET current_time == Sec(clock)
  IN IF c.redis
     THEN LET r == RedisCheck(db, key, current_time, c.window_size, clock)
          IN [allowed |-> r.count < limit, count |-> r.count, store |-> store, db |-> r.db]
     ELSE LET r == MemCheck(store, key, current_time, c.window_size)
          IN [allowed |-> r.count < limit, count |-> r.count, store |-> r.store, db |-> db]
\* _check_rate_limit(key, limit) -> (count <= limit, count)
CheckRateLimit(c, store, db, key, limit, clock) ==
  LET current_time == Sec(clock)
  IN IF c.redis
     THEN LET r == RedisCheck(db, key, current_time, c.window_size, clock)
          IN [allowed |-> r.count <= limit, count |-> r.count, store |-> store, db |-> r.db]
     ELSE LET r == MemCheck(store, key, current_time, c.window_size)
          IN [allowed |-> r.count <= limit, count |-> r.count, store |-> r.store, db |-> db]

\* The response of a rejected request.
TooManyRequests(c) ==
  [status |-> 429, content |-> "Too Many Requests", retry_after |-> Some(Str(c.window_size))]
\* The request went on to call_next; dispatch returns what comes back.
CallNext == [status |-> 0, content |-> "call_next", retry_after |-> Nothing]

\* dispatch(request, call_next)
Dispatch(client, path) ==
  /\ Len(log) < MaxReq
  /\ IF path \in cfg.exclude_paths
     THEN \* the peer address is not read on this branch
          /\ log' = Append(log, [client |-> None, path |-> path, t |-> Sec(now),
                                 checked |-> FALSE, key |-> Nothing, limit |-> 0,
                                 count |-> 0, allowed |-> TRUE, response |-> CallNext])
          /\ UNCHANGED <<requests, redis>>
     ELSE LET client_ip == IF client = None THEN "unknown" ELSE client
              rate_limit == GetRateLimit(cfg, path)
              rate_limit_key == RateLimitKey(client_ip, path)
              r == CheckRateLimit(cfg, requests, redis, rate_limit_key, rate_limit, now)
          IN /\ requests' = r.store
             /\ redis' = r.db
             /\ log' = Append(log, [client |-> client, path |-> path, t |-> Sec(now),
                                    checked |-> TRUE, key |-> rate_limit_key,
                                    limit |-> rate_limit, count |-> r.count,
                                    allowed |-> r.allowed,
                                    response |-> IF r.allowed THEN CallNext
                                                 ELSE TooManyRequests(cfg)])
  /\ UNCHANGED <<now, cfg, authVars, pipeVars>>

\* Redis drops a key whose EXPIRE deadline has passed.
RedisExpire(key) ==
  /\ key \in DOMAIN redis
  /\ now >= redis[key].expire_at
  /\ redis' = [k \in DOMAIN redis \ {key} |-> redis[k]]
  /\ UNCHANGED <<now, cfg, requests, log, authVars, pipeVars>>

\* The wall clock advances.
Tick ==
  /\ now < MaxTime
  /\ now' = now + 1
  /\ UNCHANGED <<rateVars, authVars, pipeVars>>

\* ------------------------------------------------------- settings, hashing
SECRET_KEY == "SECRET_KEY"
ACCESS_TOKEN_EXPIRE_MINUTES == 11520
REFRESH_TOKEN_EXPIRE_MINUTES == 43200
\* timedelta(minutes = m), in ticks
Minutes(m) == m * 60 * Res

\* passlib's bcrypt context: a digest verifies exactly the password it was
\* made from.
GetPasswordHash(password) == <<"bcrypt", password>>
VerifyPassword(plain_password, hashed_password) ==
  hashed_password = GetPasswordHash(plain_password)

\* ------------------------------------------------------------------ tokens
\* int(s) of a decimal text.
IntOf(s) == s[2]

\* jose.jwt.encode: a datetime claim is written as whole seconds since the
\* epoch (timegm of its time tuple), the token is signed with the key.
JwtEncode(to_encode, key) ==
  [wellformed |-> TRUE,
   payload |-> [exp |-> Sec(to_encode.exp), sub |-> to_encode.sub],
   sig |-> key]

\* A text that is no JWS at all.
Garbage == [wellformed |-> FALSE, payload |-> [exp |-> 0, sub |-> Str(0)], sig |-> ""]
\* The same header and payload under a signature made with another key.
Forge(token) == [token EXCEPT !.sig = "other key"]

\* A token signed with the server's key whose payload carries no exp claim.
WithoutExp(token) == [token EXCEPT !.payload = [sub |-> token.payload.sub]]

\* jose.jwt.decode(token, key, algorithms = ["HS256"]): the signature is
\* verified, then the exp claim, when the payload has one, against the clock
\* in whole seconds; the token is expired when exp < now
\* (ExpiredSignatureError, a JWTError).
JwtDecode(token, key, clock) ==
  IF ~token.wellformed \/ token.sig # key
  THEN [ok |-> FALSE, error |-> "JWTError", payload |-> token.payload]
  ELSE IF "exp" \in DOMAIN token.payload /\ token.payload.exp < Sec(clock)
  THEN [ok |-> FALSE, error |-> "ExpiredSignatureError", payload |-> token.payload]
  ELSE [ok |-> TRUE, error |-> "", payload |-> token.payload]

\* A token service that forgets to add the lifetime to the clock.
CreateAccessTokenNoDelta(subject, expires_delta, clock) ==
  JwtEncode([exp |-> clock, sub |-> Str(subject)], SECRET_KEY)

\* AuthService.create_access_token(subject, expires_delta) called at `clock`;
\* expires_delta is optional and counted in ticks.  `if expires_delta:` is
\* false for None and for a zero timedelta.
CreateAccessToken(subject, expires_delta, clock) ==
  LET expire == IF expires_delta # Nothing /\ expires_delta[1] # 0
                THEN clock + expires_delta[1]
                ELSE clock + Minutes(ACCESS_TOKEN_EXPIRE_MINUTES)
  IN JwtEncode([exp |-> expire, sub |-> Str(subject)], SECRET_KEY)

\* AuthService.create_refresh_token(subject, expires_delta)
CreateRefreshToken(subject, expires_delta, clock) ==
  LET expire == IF expires_delta # Nothing /\ expires_delta[1] # 0
                THEN clock + expires_delta[1]
                ELSE clock + Minutes(REFRESH_TOKEN_EXPIRE_MINUTES)
  IN JwtEncode([exp |-> expire, sub |-> Str(subject)], SECRET_KEY)

\* The instant a token made at issued_at with expires_delta expires, in ticks.
ExpiresAt(kind, expires_delta, issued_at) ==
  IF expires_delta # Nothing /\ expires_delta[1] # 0
  THEN issued_at + expires_delta[1]
  ELSE issued_at + Minutes(IF kind = "access" THEN ACCESS_TOKEN_EXPIRE_MINUTES
                           ELSE REFRESH_TOKEN_EXPIRE_MINUTES)

\* schemas.Token(**args): access_token, refresh_token and expires_in are
\* required fields (Field(...)); token_type defaults to "bearer".  A missing
\* required field raises pydantic's ValidationError.
TokenRequired == {"access_token", "refresh_token", "expires_in"}
Token(args) ==
  IF TokenRequired \subseteq DOMAIN args
  THEN [ok |-> TRUE,
        value |-> Some([access_token |-> args.access_token,
                        refresh_token |-> args.refresh_token,
                        token_type |-> IF "token_type" \in DOMAIN args
                                       THEN args.token_type ELSE "bearer",
                        expires_in |-> args.expires_in])]
  ELSE [ok |-> FALSE, value |-> Nothing]

\* schemas.TokenPayload(**payload): sub and exp are required; iat, type and
\* jti take their defaults when the payload does not carry them.
TokenPayload(payload) ==
  IF {"sub", "exp"} \subseteq DOMAIN payload
  THEN [ok |-> TRUE,
        value |-> Some([sub |-> payload.sub, exp |-> payload.exp, iat |-> Nothing,
                        type |-> "access", jti |-> Nothing])]
  ELSE [ok |-> FALSE, value |-> Nothing]

\* ----------------------------------------------------------------- outcomes
\* What a call of an endpoint ends in: a response body, an HTTPException
\* (answered with its status by the framework), or another exception, which
\* the application's handler for Exception answers with status 500.
\* `headers` are the ones the HTTPException was built with.
Ok(body) ==
  [kind |-> "ok", status |-> 200, detail |-> "", headers |-> <<>>, body |-> Some(body)]
HTTPException(status_code, detail) ==
  [kind |-> "HTTPException", status |-> status_code, detail |-> detail,
   headers |-> <<>>, body |-> Nothing]
Raised(exception) ==
  [kind |-> exception, status |-> 500, detail |-> "Internal Server Error",
   headers |-> <<>>, body |-> Nothing]
\* headers={"WWW-Authenticate": "Bearer"}
WwwAuthenticate(exception) ==
  [exception EXCEPT !.headers = <<<<"WWW-Authenticate", "Bearer">>>>]

\* -------------------------------------------------------------- AuthService
\* select(User).where(User.email == email) ... scalar_one_or_none(): the id
\* of the row with that email (email is unique), or nothing.
UserByEmail(table, email) ==
  LET ids == {id \in DOMAIN table : table[id].email = email}
  IN IF ids = {} THEN Nothing ELSE Some(CHOOSE id \in ids : TRUE)

\* An authenticate that does not look at the password.
AuthenticateAnyPassword(table, email, password) == UserByEmail(table, email)

\* AuthService.authenticate(email, password, db): the user's id, or nothing.
Authenticate(table, email, password) ==
  LET user == UserByEmail(table, email)
  IN IF user = Nothing THEN Nothing
     ELSE IF ~VerifyPassword(password, table[user[1]].hashed_password) THEN Nothing
     ELSE user

\* db.get(User, id) for an integer id: the id when the row exists.
DbGet(table, id) == IF id \in DOMAIN table THEN Some(id) ELSE Nothing

\* ---------------------------------------------------------------- endpoints
\* A login that tells an unknown email from a wrong password.
LoginHandlerNamesUser(table, email, password, clock) ==
  IF UserByEmail(table, email) = Nothing THEN HTTPException(404, "User not found")
  ELSE IF Authenticate(table, email, password) = Nothing
  THEN WwwAuthenticate(HTTPException(401, "Incorrect email or password"))
  ELSE Raised("ValidationError")

\* POST /login
LoginHandler(table, email, password, clock) ==
  LET user == Authenticate(table, email, password)
  IN IF user = Nothing
     THEN WwwAuthenticate(HTTPException(401, "Incorrect email or password"))
     ELSE IF ~table[user[1]].is_active
     THEN HTTPException(400, "Inactive user")
     ELSE LET t == Token([access_token |->
                            CreateAccessToken(user[1],
                              Some(Minutes(ACCESS_TOKEN_EXPIRE_MINUTES)), clock),
                          refresh_token |->
                            CreateRefreshToken(user[1],
                              Some(Minutes(REFRESH_TOKEN_EXPIRE_MINUTES)), clock),
                          token_type |-> "bearer"])
          IN IF t.ok THEN Ok(t.value[1]) ELSE Raised("ValidationError")

\* POST /refresh.  The HTTPException raised inside the try block is no
\* JWTError, so it leaves the handler as it is.
RefreshHandler(table, refresh_token, clock) ==
  LET decoded == JwtDecode(refresh_token, SECRET_KEY, clock)
  IN IF ~decoded.ok
     THEN HTTPException(401, "Invalid refresh token")
     ELSE LET user_id == IntOf(decoded.payload.sub)
              user == DbGet(table, user_id)
          IN IF user = Nothing \/ ~table[user_id].is_active
             THEN HTTPException(401, "Invalid refresh token")
             ELSE LET t == Token([access_token |->
                                    CreateAccessToken(user_id,
                                      Some(Minutes(ACCESS_TOKEN_EXPIRE_MINUTES)), clock),
                                  refresh_token |->
                                    CreateRefreshToken(user_id,
                                      Some(Minutes(REFRESH_TOKEN_EXPIRE_MINUTES)), clock),
                                  token_type |-> "bearer"])
                  IN IF t.ok THEN Ok(t.value[1]) ELSE Raised("ValidationError")

\* deps.get_current_user up to the user lookup: decode, then TokenPayload.
\* A JWTError becomes the 401 credentials exception.
VerifyToken(token, clock) ==
  LET decoded == JwtDecode(token, SECRET_KEY, clock)
  IN IF ~decoded.ok THEN [ok |-> FALSE, error |-> "JWTError", claims |-> Nothing]
     ELSE LET token_data == TokenPayload(decoded.payload)
          IN IF token_data.ok THEN [ok |-> TRUE, error |-> "", claims |-> token_data.value]
             ELSE [ok |-> FALSE, error |-> "ValidationError", claims |-> Nothing]

\* deps.get_current_user(token, db).  token_data.sub is the text of the id;
\* whether db.get finds the row by a text key or the driver refuses the
\* parameter is decided outside this repository: `coerces` is either.
GetCurrentUser(table, token, clock, coerces) ==
  LET v == VerifyToken(token, clock)
  IN IF ~v.ok
     THEN IF v.error = "JWTError"
          THEN [outcome |-> WwwAuthenticate(HTTPException(401, "Could not validate credentials")),
                user |-> Nothing, claims |-> Nothing]
          ELSE [outcome |-> Raised(v.error), user |-> Nothing, claims |-> Nothing]
     ELSE IF ~coerces
     THEN [outcome |-> Raised("DBAPIError"), user |-> Nothing, claims |-> v.claims]
     ELSE LET user == DbGet(table, IntOf(v.claims[1].sub))
          IN IF user = Nothing
             THEN [outcome |-> WwwAuthenticate(HTTPException(401, "Could not validate credentials")),
                   user |-> Nothing, claims |-> v.claims]
             ELSE [outcome |-> Ok(user[1]), user |-> user, claims |-> v.claims]

\* ------------------------------------------------- the auth endpoints' calls
Emails == {"ann@example.com", "bob@example.com"}
Passwords == {"secret-1", "secret-2"}
\* Passwords chosen at registration.
RegisterPasswords == {"secret-1"}
Subjects == 1 .. MaxUsers
\* expires_delta: None, or a number of ticks
Deltas == {Nothing} \cup {Some(d) : d \in 1 .. MaxTtl}

\* The tokens a caller can present: any token the token service made at an
\* instant in `issue_times` (issuing one changes no state of the server), a
\* forgery, garbage, or a correctly signed token without an exp claim.
GenuineDescriptors(origins, issue_times) ==
  [origin : origins, subject : Subjects, delta : Deltas,
   issued_at : issue_times, forged : {FALSE}, garbage : {FALSE}, noexp : {FALSE}]
TokenDescriptors(issue_times) ==
  GenuineDescriptors({"access", "refresh"}, issue_times)
    \cup {[origin |-> "access", subject |-> 1, delta |-> Nothing, issued_at |-> 0,
           forged |-> f, garbage |-> ~f, noexp |-> FALSE] : f \in BOOLEAN}
    \cup {[origin |-> "access", subject |-> 1, delta |-> Nothing, issued_at |-> 0,
           forged |-> FALSE, garbage |-> FALSE, noexp |-> TRUE]}
TokenOf(d) ==
  LET t == IF d.origin = "access"
           THEN CreateAccessToken(d.subject, d.delta, d.issued_at)
           ELSE CreateRefreshToken(d.subject, d.delta, d.issued_at)
  IN IF d.garbage THEN Garbage
     ELSE IF d.forged THEN Forge(t)
     ELSE IF d.noexp THEN WithoutExp(t)
     ELSE t
Genuine(d) == ~d.garbage /\ ~d.forged /\ ~d.noexp

BaseRes ==
  [op |-> "none", at |-> 0, presented |-> Nothing, email |-> "", password |-> "",
   uid |-> 0, known |-> FALSE, pw_ok |-> FALSE, active |-> FALSE,
   verified |-> FALSE, reused |-> FALSE,
   kind |-> "none", status |-> 0, detail |-> "", headers |-> <<>>, body |-> Nothing,
   claims |-> Nothing]
WithOutcome(res, o) ==
  [res EXCEPT !.kind = o.kind, !.status = o.status, !.detail = o.detail,
              !.headers = o.headers, !.body = o.body]

\* POST /register (AuthService.create_user).  The usernames of the model's
\* requests are all different.
Register(email, password, is_active) ==
  /\ IF UserByEmail(users, email) # Nothing
     THEN /\ authRes' = WithOutcome([BaseRes EXCEPT !.op = "register", !.at = now,
                                       !.email = email],
                                    HTTPException(400, "Email already registered"))
          /\ UNCHANGED users
     ELSE /\ Cardinality(DOMAIN users) < MaxUsers
          /\ LET id == Cardinality(DOMAIN users) + 1
                 row == [email |-> email, hashed_password |-> GetPasswordHash(password),
                         is_active |-> is_active]
             IN /\ users' = [k \in DOMAIN users \cup {id} |->
                               IF k = id THEN row ELSE users[k]]
                /\ authRes' = WithOutcome([BaseRes EXCEPT !.op = "register", !.at = now,
                                             !.email = email, !.uid = id], Ok(id))
  /\ UNCHANGED <<now, rateVars, pipeVars>>

\* POST /login
Login(email, password) ==
  /\ LET user == UserByEmail(users, email)
         known == user # Nothing
         uid == IF known THEN user[1] ELSE 0
     IN authRes' = WithOutcome(
          [BaseRes EXCEPT !.op = "login", !.at = now, !.email = email,
             !.password = password, !.uid = uid, !.known = known,
             !.pw_ok = known /\ VerifyPassword(password, users[uid].hashed_password),
             !.active = known /\ users[uid].is_active],
          LoginHandler(users, email, password, now))
  /\ UNCHANGED <<now, rateVars, pipeVars, users>>

\* POST /refresh.  `reused`: the call before this one was a refresh of the
\* same token that passed every check of the handler.
Refresh(d) ==
  LET token == TokenOf(d)
      sub == IntOf(token.payload.sub)
      verified == JwtDecode(token, SECRET_KEY, now).ok
      active == sub \in DOMAIN users /\ users[sub].is_active
      o == RefreshHandler(users, token, now)
  IN /\ authRes' = WithOutcome(
          [BaseRes EXCEPT !.op = "refresh", !.at = now, !.presented = Some(d),
             !.uid = sub, !.known = sub \in DOMAIN users, !.active = active,
             !.verified = verified,
             !.reused = /\ authRes.op = "refresh" /\ authRes.presented = Some(d)
                        /\ authRes.verified /\ authRes.active], o)
     /\ UNCHANGED <<now, rateVars, pipeVars, users>>

\* GET /me (get_current_user)
ReadUsersMe(d, coerces) ==
  LET token == TokenOf(d)
      r == GetCurrentUser(users, token, now, coerces)
  IN /\ authRes' = WithOutcome(
          [BaseRes EXCEPT !.op = "verify", !.at = now, !.presented = Some(d),
             !.verified = VerifyToken(token, now).ok, !.claims = r.claims], r.outcome)
     /\ UNCHANGED <<now, rateVars, pipeVars, users>>

\* PUT /me with a body that sets is_active (AuthService.update_user)
UpdateUserMe(d, coerces, is_active) ==
  LET token == TokenOf(d)
      r == GetCurrentUser(users, token, now, coerces)
  IN /\ IF r.user = Nothing
        THEN /\ authRes' = WithOutcome(
                  [BaseRes EXCEPT !.op = "update", !.at = now, !.presented = Some(d)],
                  r.outcome)
             /\ UNCHANGED users
        ELSE /\ users' = [users EXCEPT ![r.user[1]].is_active = is_active]
             /\ authRes' = WithOutcome(
                  [BaseRes EXCEPT !.op = "update", !.at = now, !.presented = Some(d),
                     !.uid = r.user[1]], Ok(r.user[1]))
     /\ UNCHANGED <<now, rateVars, pipeVars>>

\* A call of the token service: create_access_token or create_refresh_token
\* with subject and expires_delta, at the clock of the model.
Issue(kind, subject, expires_delta) ==
  /\ applied' = Some([op |-> "issue", kind |-> kind, subject |-> subject,
                      expires_delta |-> expires_delta, at |-> now,
                      token |-> IF kind = "access"
                                THEN CreateAccessToken(subject, expires_delta, now)
                                ELSE CreateRefreshToken(subject, expires_delta, now)])
  /\ UNCHANGED <<now, rateVars, authVars, settings, stages, served, alerts>>

\* ------------------------------------------------------------------- texts
\* A text is a sequence of lexemes: a symbol, or a word (a run of \w
\* characters).  Two adjacent words read as one run.
Symbols == {"'", "\"", " ", "=", "--", ";", "(", "%", "+", "&", "{", "}", ":", "#", "/*", "*/"}
IsWord(x) == x \notin Symbols
\* str.upper() on the words of the model's texts ((?i) in a pattern).
Upper(w) ==
  CASE w = "or" -> "OR"
    [] w = "user" -> "USER"
    [] w = "select" -> "SELECT"
    [] OTHER -> w

\* The values and keys requests of the model carry.
Plain == <<"1">>
Tautology == <<"'", " ", "or", " ", "1", "=", "1">>
TautologyComment == <<"'", " ", "OR", " ", "1", "=", "1", " ", "--">>

\* urllib.parse.quote_plus: letters, digits and _ . - ~ are kept, a space
\* becomes "+", every other character its %XX escape.
QuotePlusOf(x) ==
  CASE x = " " -> <<"+">>
    [] x = "'" -> <<"%", "27">>
    [] x = "\"" -> <<"%", "22">>
    [] x = "=" -> <<"%", "3D">>
    [] x = ";" -> <<"%", "3B">>
    [] x = "(" -> <<"%", "28">>
    [] x = "%" -> <<"%", "25">>
    [] x = "+" -> <<"%", "2B">>
    [] x = "&" -> <<"%", "26">>
    [] x = "{" -> <<"%", "7B">>
    [] x = "}" -> <<"%", "7D">>
    [] x = ":" -> <<"%", "3A">>
    [] x = "#" -> <<"%", "23">>
    [] x = "/*" -> <<"%", "2F", "%", "2A">>
    [] x = "*/" -> <<"%", "2A", "%", "2F">>
    [] OTHER -> <<x>>
RECURSIVE QuotePlus(_)
QuotePlus(t) == IF t = <<>> THEN <<>> ELSE QuotePlusOf(Head(t)) \o QuotePlus(Tail(t))

\* str(request.query_params): urlencode of the parsed pairs.
\* A query is nothing, or one pair <<key, value>> of texts.
StrQueryParams(query) ==
  IF query = Nothing THEN <<>>
  ELSE QuotePlus(query[1][1]) \o <<"=">> \o QuotePlus(query[1][2])

\* repr() of a str: in single quotes, or in double quotes when the text holds
\* a single quote and no double quote.
ReprStr(t) ==
  LET chars == {t[i] : i \in DOMAIN t}
      q == IF "'" \in chars /\ "\"" \notin chars THEN "\"" ELSE "'"
  IN <<q>> \o t \o <<q>>
\* str(body) of a parsed JSON object with one member <<key, value>>.
StrBody(body) ==
  <<"{">> \o ReprStr(body[1]) \o <<":", " ">> \o ReprStr(body[2]) \o <<"}">>
\* str(request.path_params): no route has matched yet inside a middleware.
StrPathParams == <<"{", "}">>

\* ----------------------------------------------- SQLInjectionMiddleware
\* \b before and after lexeme i.
WordAt(t, i) ==
  /\ IsWord(t[i])
  /\ i = 1 \/ ~IsWord(t[i - 1])
  /\ i = Len(t) \/ ~IsWord(t[i + 1])
\* The first position from i on that holds no space (\s*), Len(t) + 1 at the end.
RECURSIVE SkipSpace(_, _)
SkipSpace(t, i) == IF i <= Len(t) /\ t[i] = " " THEN SkipSpace(t, i + 1) ELSE i
\* The first position from i on that holds no word (\w+ taken whole).
RECURSIVE SkipWord(_, _)
SkipWord(t, i) == IF i <= Len(t) /\ IsWord(t[i]) THEN SkipWord(t, i + 1) ELSE i

\* (?i)(SELECT|INSERT|UPDATE|DELETE|DROP|UNION|ALTER).*?;
Pattern1(t) ==
  \E i \in DOMAIN t :
    /\ Upper(t[i]) \in {"SELECT", "INSERT", "UPDATE", "DELETE", "DROP", "UNION", "ALTER"}
    /\ \E j \in i + 1 .. Len(t) : t[j] = ";"
\* (?i)(\b(AND|OR)\b\s+\w+\s*=\s*\w+)
Pattern2(t) ==
  \E i \in DOMAIN t :
    /\ Upper(t[i]) \in {"AND", "OR"} /\ WordAt(t, i)
    /\ i + 1 <= Len(t) /\ t[i + 1] = " "
    /\ LET w == SkipSpace(t, i + 1)
           e == SkipSpace(t, SkipWord(t, w))
           v == SkipSpace(t, e + 1)
       IN /\ w <= Len(t) /\ IsWord(t[w])
          /\ e <= Len(t) /\ t[e] = "="
          /\ v <= Len(t) /\ IsWord(t[v])
\* (?i)(--|\#|\/\*|\*\/)
Pattern3(t) == \E i \in DOMAIN t : t[i] \in {"--", "#", "/*", "*/"}
\* (?i)(\bEXEC\b|\bLIKE\b)
Pattern4(t) == \E i \in DOMAIN t : Upper(t[i]) \in {"EXEC", "LIKE"} /\ WordAt(t, i)
\* (?i)(\bSYSTEM\b|\bUSER\b|\bDATABASE\b)
Pattern5(t) ==
  \E i \in DOMAIN t : Upper(t[i]) \in {"SYSTEM", "USER", "DATABASE"} /\ WordAt(t, i)
\* '.*?';\s*--
Pattern6(t) ==
  \E i \in DOMAIN t :
    /\ t[i] = "'"
    /\ \E j \in i + 1 .. Len(t) - 1 :
         /\ t[j] = "'" /\ t[j + 1] = ";"
         /\ LET c == SkipSpace(t, j + 2) IN c <= Len(t) /\ t[c] = "--"
\* \b(CONCAT|CHAR|ASCII)\b.*?\(
Pattern7(t) ==
  \E i \in DOMAIN t :
    /\ t[i] \in {"CONCAT", "CHAR", "ASCII"} /\ WordAt(t, i)
    /\ \E j \in i + 1 .. Len(t) : t[j] = "("

\* _check_sql_injection(text): any(pattern.search(text) for pattern in patterns)
CheckSqlInjection(text) ==
  \/ Pattern1(text) \/ Pattern2(text) \/ Pattern3(text) \/ Pattern4(text)
  \/ Pattern5(text) \/ Pattern6(text) \/ Pattern7(text)

\* A body is nothing, or its encoding and what was sent: a JSON object with
\* one member, <<key, value>>, or a plain text, <<text>>.
JsonBody(key, value) == [encoding |-> "json", data |-> <<key, value>>]
TextBody(text) == [encoding |-> "text", data |-> <<text>>]
\* await request.json(): the parsed object; json.loads raises on an empty
\* body and on one that is no JSON.
RequestJson(body) ==
  IF body # Nothing /\ body[1].encoding = "json" THEN Some(body[1].data) ELSE Nothing
\* _get_request_data(request): the texts screened, in the order of the dict.
\* The body is read for POST, PUT and PATCH; one request.json() fails on is
\* left out.
GetRequestData(req) ==
  <<StrQueryParams(req.query), StrPathParams>>
    \o (IF req.method \in {"POST", "PUT", "PATCH"} /\ RequestJson(req.body) # Nothing
        THEN <<StrBody(RequestJson(req.body)[1])>> ELSE <<>>)

\* ------------------------------------------------- responses and exceptions
\* What a stage hands back to the stage around it: a response, or an
\* exception leaving call_next.  A dispatch takes as `out` what its
\* call_next(request) returns or raises; it uses `out` only where the code
\* makes the call.  `ran` lists the stages and the handler a
\* request entered, outermost first; `ctx` is the state the stages share
\* while the request is processed: the rate limiter's stores and
\* request.state.request_id; `caught` is the exception the error boundary
\* made the response from.
Response(status_code, media, content, headers, ctx) ==
  [kind |-> "response", status |-> status_code, media |-> media, content |-> content,
   headers |-> headers, exc |-> Nothing, caught |-> Nothing, ran |-> <<>>, ctx |-> ctx]
Raise(exc, ctx) ==
  [kind |-> "exception", status |-> 0, media |-> "", content |-> "",
   headers |-> <<>>, exc |-> Some(exc), caught |-> Nothing, ran |-> <<>>, ctx |-> ctx]
Enter(stage, out) == [out EXCEPT !.ran = <<stage>> \o @]
\* The headers of a response are the list of its <<name, value>> pairs, in
\* the order they are sent; a name may occur more than once.  Names compare
\* without regard to case; the model writes each name in one spelling.
HeaderNames(headers) == {headers[i][1] : i \in DOMAIN headers}
\* The positions of the pairs of one name.
HeaderIndexes(headers, name) == {i \in DOMAIN headers : headers[i][1] = name}
\* response.headers[name]: the value of the first pair of the name.
GetHeader(headers, name) ==
  headers[CHOOSE i \in HeaderIndexes(headers, name) :
            \A j \in HeaderIndexes(headers, name) : i <= j][2]
\* An assignment that adds a pair whatever the list holds (headers.append).
SetHeaderAppend(headers, name, value) == Append(headers, <<name, value>>)
\* response.headers[name] = value (MutableHeaders.__setitem__): the first
\* pair of the name gets the value and every other pair of the name is
\* deleted; a pair is appended when the name is absent.
SetHeader(headers, name, value) ==
  LET found == HeaderIndexes(headers, name)
  IN IF found = {} THEN Append(headers, <<name, value>>)
     ELSE LET first == CHOOSE i \in found : \A j \in found : i <= j
              keep == {i \in DOMAIN headers : i = first \/ i \notin found}
              at(k) == CHOOSE i \in keep : Cardinality({j \in keep : j <= i}) = k
          IN [k \in 1 .. Cardinality(keep) |->
                IF at(k) = first THEN <<name, value>> ELSE headers[at(k)]]

\* An exception: the classes isinstance() finds it in, its type's name,
\* str(exc), and the attributes of an AppException.
ExcClasses == {"AppException", "PydanticValidationError", "SQLAlchemyError"}
Messages == {"relation users: connection refused", "stack at 0x7f"}
ExcOf(classes, message) ==
  [classes |-> classes, message |-> message,
   error_code |-> IF "AppException" \in classes THEN 4001 ELSE 0,
   status_code |-> IF "AppException" \in classes THEN 401 ELSE 0,
   detail |-> IF "AppException" \in classes THEN message ELSE "",
   details |-> Nothing]
Exceptions == {ExcOf(classes, message) : classes \in SUBSET ExcClasses, message \in Messages}
\* ValueError, AttributeError: in none of the classes the boundary knows.
ValueError == ExcOf({}, "invalid literal for int() with base 10")
AttributeError == ExcOf({}, "'NoneType' object has no attribute 'host'")

\* ------------------------------------------------ ExceptionHandlerMiddleware
\* ErrorResponse(...).model_dump()
ErrorResponse(error_code, message, details, trace_id) ==
  [error_code |-> error_code, message |-> message, details |-> details,
   trace_id |-> trace_id]
JSONResponse(status_code, content, ctx) ==
  Response(status_code, "application/json", content, <<>>, ctx)

HandleAppException(exc, ctx) ==
  JSONResponse(exc.status_code,
               ErrorResponse(exc.error_code, exc.detail, exc.details, ctx.request_id), ctx)
\* details = exc.errors()
HandleValidationError(exc, ctx) ==
  JSONResponse(400, ErrorResponse(4000, "Validation error",
                                  Some(<<"errors", exc.message>>), ctx.request_id), ctx)
\* A handler that sends str(exc) whatever DEBUG is.
HandleDatabaseErrorVerbose(debug, exc, ctx) ==
  JSONResponse(500, ErrorResponse(5000, "Database error occurred",
                                  Some(exc.message), ctx.request_id), ctx)
\* details = str(exc) if settings.DEBUG else None
HandleDatabaseError(debug, exc, ctx) ==
  JSONResponse(500, ErrorResponse(5000, "Database error occurred",
                                  IF debug THEN Some(exc.message) ELSE Nothing,
                                  ctx.request_id), ctx)
\* A handler that sends the error and the traceback whatever DEBUG is.
HandleUnknownErrorVerbose(debug, exc, ctx) ==
  JSONResponse(500, ErrorResponse(5001, "Internal server error",
                                  Some(<<"error", exc.message, "traceback">>),
                                  ctx.request_id), ctx)
\* details = {"error": str(exc), "traceback": ...} when settings.DEBUG
HandleUnknownError(debug, exc, ctx) ==
  JSONResponse(500, ErrorResponse(5001, "Internal server error",
                                  IF debug THEN Some(<<"error", exc.message, "traceback">>)
                                  ELSE Nothing,
                                  ctx.request_id), ctx)

\* A boundary that tries the storage class before the application class.
TranslateStorageFirst(debug, exc, ctx) ==
  IF "SQLAlchemyError" \in exc.classes THEN HandleDatabaseError(debug, exc, ctx)
  ELSE IF "AppException" \in exc.classes THEN HandleAppException(exc, ctx)
  ELSE IF "PydanticValidationError" \in exc.classes THEN HandleValidationError(exc, ctx)
  ELSE HandleUnknownError(debug, exc, ctx)

\* The except clauses of dispatch, tried in their order.  trace_id is
\* getattr(request.state, "request_id", None): request.state is the state of
\* the ASGI scope, which every stage of one request shares.
Translate(debug, exc, ctx) ==
  IF "AppException" \in exc.classes THEN HandleAppException(exc, ctx)
  ELSE IF "PydanticValidationError" \in exc.classes THEN HandleValidationError(exc, ctx)
  ELSE IF "SQLAlchemyError" \in exc.classes THEN HandleDatabaseError(debug, exc, ctx)
  ELSE HandleUnknownError(debug, exc, ctx)

\* dispatch(request, call_next)
ExceptionHandlerDispatch(debug, out) ==
  Enter("exception_handler",
        IF out.kind = "response" THEN out
        ELSE [Translate(debug, out.exc[1], out.ctx)
                EXCEPT !.ran = out.ran, !.caught = out.exc])

\* ---------------------------------------------------- ErrorLoggingMiddleware
DEFAULT_ALERT_THRESHOLD == 10
DEFAULT_ALERT_INTERVAL == 60
\* __init__
ErrorLoggingInit(alert_threshold, alert_interval) ==
  [alert_threshold |-> alert_threshold, alert_interval |-> alert_interval,
   error_count |-> 0, last_alert_time |-> 0]
\* _should_send_alert: the answer, and the instance after the call.
ShouldSendAlert(a, clock) ==
  LET current_time == Sec(clock)
  IN IF a.error_count >= a.alert_threshold
        /\ current_time - a.last_alert_time > a.alert_interval
     THEN [send |-> TRUE,
           a |-> [a EXCEPT !.last_alert_time = current_time, !.error_count = 0]]
     ELSE [send |-> FALSE, a |-> a]
\* dispatch: a response is handed back; on an exception the error is
\* counted, the alert is sent when due, and the exception is raised again.
ErrorLoggingDispatch(a, out, clock) ==
  IF out.kind = "response"
  THEN [a |-> a, alerted |-> FALSE, out |-> Enter("error_logging", out)]
  ELSE LET r == ShouldSendAlert([a EXCEPT !.error_count = @ + 1], clock)
       IN [a |-> r.a, alerted |-> r.send, out |-> Enter("error_logging", out)]

\* global_exception_handler of the application: the handler the application
\* as built answers an exception with that no middleware has turned into a
\* response.
GlobalExceptionHandler(debug, exc, ctx) ==
  JSONResponse(500, [message |-> "Internal Server Error",
                     detail |-> IF debug THEN exc.message ELSE "An error occurred"], ctx)

\* -------------------------------------------------- RequestLoggingMiddleware
\* str.lower() on the header names of the model.
Lower(name) == IF name = "Cookie" THEN "cookie" ELSE name
\* __init__
RequestLoggingInit(exclude_paths, sensitive_headers, log_request_body) ==
  [exclude_paths |-> IF exclude_paths = Nothing \/ exclude_paths = Some({})
                     THEN {"/health", "/metrics"} ELSE exclude_paths[1],
   sensitive_headers |-> IF sensitive_headers = Nothing \/ sensitive_headers = Some({})
                         THEN {"authorization", "cookie"} ELSE sensitive_headers[1],
   log_request_body |-> log_request_body]
\* A mask that knows the authorization header only.
MaskSensitiveHeadersOne(m, headers) ==
  [k \in DOMAIN headers |-> IF Lower(k) = "authorization" THEN "***" ELSE headers[k]]
\* _mask_sensitive_headers(headers); headers is a dict, name -> value.
MaskSensitiveHeaders(m, headers) ==
  [k \in DOMAIN headers |->
     IF Lower(k) \in m.sensitive_headers THEN "***" ELSE headers[k]]
\* log_request: the record handed to logger.info.  The body is logged when
\* log_request_body is set and request.json() parses it.
LogRequest(m, req, headers, request_id) ==
  [message |-> "Request received", request_id |-> request_id, method |-> req.method,
   path |-> req.path, query_params |-> StrQueryParams(req.query),
   client_host |-> req.client, headers |-> MaskSensitiveHeaders(m, headers),
   body |-> IF m.log_request_body THEN RequestJson(req.body) ELSE Nothing]
\* f"{duration:.3f}s"
Duration == "0.001s"
\* log_response
LogResponse(out, request_id) ==
  [message |-> "Request completed", request_id |-> request_id,
   status_code |-> out.status, duration |-> Duration, response_headers |-> out.headers]
\* The record of the except branch of dispatch.
LogFailure(exc, request_id) ==
  [message |-> "Request failed", request_id |-> request_id, error |-> exc.message,
   duration |-> Duration]
\* A dispatch without the except branch.
RequestLoggingDispatchNoExcept(m, req, headers, ctx, out) ==
  IF req.path \in m.exclude_paths \/ ctx.request_id = Nothing
  THEN [records |-> <<>>, out |-> Enter("request_logging", out)]
  ELSE LET request_id == ctx.request_id[1]
           received == LogRequest(m, req, headers, request_id)
       IN IF out.kind = "response"
          THEN [records |-> <<received, LogResponse(out, request_id)>>,
                out |-> Enter("request_logging",
                              [out EXCEPT !.headers =
                                 SetHeader(@, "X-Process-Time", Duration)])]
          ELSE [records |-> <<received>>, out |-> Enter("request_logging", out)]
\* dispatch: the records logged, in order, and what is handed back.  A
\* request of an excluded path or without request.state.request_id goes to
\* call_next unlogged; an exception is logged and raised again.
RequestLoggingDispatch(m, req, headers, ctx, out) ==
  IF req.path \in m.exclude_paths \/ ctx.request_id = Nothing
  THEN [records |-> <<>>, out |-> Enter("request_logging", out)]
  ELSE LET request_id == ctx.request_id[1]
           received == LogRequest(m, req, headers, request_id)
       IN IF out.kind = "response"
          THEN [records |-> <<received, LogResponse(out, request_id)>>,
                out |-> Enter("request_logging",
                              [out EXCEPT !.headers =
                                 SetHeader(@, "X-Process-Time", Duration)])]
          ELSE [records |-> <<received, LogFailure(out.exc[1], request_id)>>,
                out |-> Enter("request_logging", out)]

\* ---------------------------------------------------------- ResponseMiddleware
\* str(uuid.uuid4()): an id no other request has; k counts the ids drawn.
Uuid4(k) == <<"uuid", k>>
\* str(time.time() - start_time)
ProcessTime == "0.001"
\* A stage that forgets to store the id on request.state.
ResponseStateUnset(request_id, ctx) == ctx
\* request.state.request_id = request_id, before call_next
ResponseState(request_id, ctx) == [ctx EXCEPT !.request_id = Some(request_id)]
\* dispatch: the two headers are set on the response that comes back; an
\* exception is logged and raised again.
ResponseDispatch(request_id, out) ==
  Enter("request_id",
        IF out.kind = "response"
        THEN [out EXCEPT !.headers =
                SetHeader(SetHeader(@, "X-Request-ID", request_id),
                          "X-Process-Time", ProcessTime)]
        ELSE out)

\* --------------------------------------------------- RequestValidationMiddleware
DEFAULT_MAX_CONTENT_LENGTH == 1048576
DefaultContentTypes ==
  {"application/json", "application/x-www-form-urlencoded", "multipart/form-data"}
\* __init__
RequestValidationInit(max_content_length, allowed_content_types) ==
  [max_content_length |-> max_content_length,
   allowed_content_types |-> IF allowed_content_types = Nothing
                                  \/ allowed_content_types = Some({})
                             THEN DefaultContentTypes ELSE allowed_content_types[1]]
\* A header value that is no decimal number; int() of it raises ValueError.
NotDecimal == <<"txt", 0>>
IsDecimal(s) == s[1] = "str"
\* Response(content=..., status_code=...): a text body; media_type is None,
\* so the response carries no content-type.
PlainResponse(status_code, content, ctx) ==
  Response(status_code, "", content, <<>>, ctx)
\* A stage that goes on after an unsupported media type.
RequestValidationDispatchLenient(v, req, ctx, out) ==
  Enter("validation",
    IF req.content_length # Nothing /\ ~IsDecimal(req.content_length[1])
    THEN Raise(ValueError, ctx)
    ELSE IF req.content_length # Nothing
            /\ IntOf(req.content_length[1]) > v.max_content_length
    THEN PlainResponse(413, "Request Entity Too Large", ctx)
    ELSE out)
\* dispatch.  A header is nothing or the sequence of the parts ";" separates;
\* an absent content-type reads as "".
RequestValidationDispatch(v, req, ctx, out) ==
  LET content_type == IF req.content_type = Nothing THEN "" ELSE req.content_type[1][1]
  IN Enter("validation",
       IF content_type # "" /\ content_type \notin v.allowed_content_types
       THEN PlainResponse(415, "Unsupported Media Type", ctx)
       ELSE IF req.content_length # Nothing /\ ~IsDecimal(req.content_length[1])
       THEN Raise(ValueError, ctx)
       ELSE IF req.content_length # Nothing
               /\ IntOf(req.content_length[1]) > v.max_content_length
       THEN PlainResponse(413, "Request Entity Too Large", ctx)
       ELSE out)

\* ------------------------------------------ RateLimitingMiddleware as a stage
\* The check of dispatch on the stores of ctx: whether the request is
\* allowed, and the stores after it.  A request of an excluded path is not
\* checked.
RateLimitingCheck(c, req, ctx, clock) ==
  IF req.path \in c.exclude_paths THEN [allowed |-> TRUE, ctx |-> ctx]
  ELSE LET client_ip == IF req.client = None THEN "unknown" ELSE req.client
           rate_limit == GetRateLimit(c, req.path)
           rate_limit_key == RateLimitKey(client_ip, req.path)
           r == CheckRateLimit(c, ctx.store, ctx.db, rate_limit_key, rate_limit, clock)
       IN [allowed |-> r.allowed, ctx |-> [ctx EXCEPT !.store = r.store, !.db = r.db]]
\* dispatch(request, call_next)
RateLimitingDispatch(c, req, ctx, clock, out) ==
  LET r == RateLimitingCheck(c, req, ctx, clock)
  IN Enter("rate_limit",
       IF ~r.allowed
       THEN [PlainResponse(429, TooManyRequests(c).content, r.ctx)
               EXCEPT !.headers = SetHeader(@, "Retry-After",
                                            TooManyRequests(c).retry_after[1])]
       ELSE out)

\* ------------------------------------------ SQLInjectionMiddleware as a stage
\* The loop of dispatch from part i on: "pass", "block", or "raise" when the
\* warning reads request.client.host of a request without a peer address.
RECURSIVE Screen(_, _, _, _)
Screen(data, client, block_suspicious, i) ==
  IF i > Len(data) THEN "pass"
  ELSE IF CheckSqlInjection(data[i])
  THEN IF client = None THEN "raise"
       ELSE IF block_suspicious THEN "block"
       ELSE Screen(data, client, block_suspicious, i + 1)
  ELSE Screen(data, client, block_suspicious, i + 1)
\* dispatch
SQLInjectionDispatch(block_suspicious, req, ctx, out) ==
  LET verdict == Screen(GetRequestData(req), req.client, block_suspicious, 1)
  IN Enter("injection",
       IF verdict = "raise" THEN Raise(AttributeError, ctx)
       ELSE IF verdict = "block" THEN PlainResponse(400, "Invalid request", ctx)
       ELSE out)

\* ------------------------------------------------- SecurityHeadersMiddleware
SecurityHeaders ==
  [h \in {"X-Content-Type-Options", "X-Frame-Options", "X-XSS-Protection",
          "Strict-Transport-Security", "Content-Security-Policy", "Referrer-Policy",
          "Permissions-Policy"} |->
     CASE h = "X-Content-Type-Options" -> "nosniff"
       [] h = "X-Frame-Options" -> "DENY"
       [] h = "X-XSS-Protection" -> "1; mode=block"
       [] h = "Strict-Transport-Security" -> "max-age=31536000; includeSubDomains"
       [] h = "Content-Security-Policy" -> "default-src 'self'"
       [] h = "Referrer-Policy" -> "strict-origin-when-cross-origin"
       [] h = "Permissions-Policy" -> "geolocation=(), microphone=()"]
\* The names in the order dispatch assigns them.
SecurityHeaderNames ==
  <<"X-Content-Type-Options", "X-Frame-Options", "X-XSS-Protection",
    "Strict-Transport-Security", "Content-Security-Policy", "Referrer-Policy",
    "Permissions-Policy">>
\* The assignments to response.headers from the i-th on.
RECURSIVE SetSecurityHeadersFrom(_, _)
SetSecurityHeadersFrom(headers, i) ==
  IF i > Len(SecurityHeaderNames) THEN headers
  ELSE SetSecurityHeadersFrom(
         SetHeader(headers, SecurityHeaderNames[i], SecurityHeaders[SecurityHeaderNames[i]]),
         i + 1)
\* The seven assignments to response.headers.
SetSecurityHeaders(headers) == SetSecurityHeadersFrom(headers, 1)
\* dispatch: the headers are set on the response call_next returns.
SecurityHeadersDispatch(out) ==
  Enter("security_headers",
        IF out.kind = "response"
        THEN [out EXCEPT !.headers = SetSecurityHeaders(@)]
        ELSE out)

\* The responses the stage is applied to: their headers hold up to
\* MaxHeaders pairs, a security header with another value and more than once
\* among them.
HeaderPairs ==
  {<<"Content-Type", "application/json">>, <<"X-Frame-Options", "SAMEORIGIN">>,
   <<"X-Frame-Options", "DENY">>, <<"Referrer-Policy", "no-referrer">>}
RECURSIVE HeaderListsOf(_)
HeaderListsOf(n) ==
  IF n = 0 THEN {<<>>}
  ELSE HeaderListsOf(n - 1)
         \cup {Append(h, p) : h \in HeaderListsOf(n - 1), p \in HeaderPairs}
HeaderLists == HeaderListsOf(MaxHeaders)
\* The stage around a call_next that returns a response with these headers,
\* and the stage around that stage; one response in a behaviour.
ApplySecurityHeaders(headers) ==
  /\ applied = Nothing
  /\ LET ctx == [store |-> requests, db |-> redis, request_id |-> Nothing]
         once == SecurityHeadersDispatch(Response(200, "application/json",
                                                  [result |-> "ok"], headers, ctx))
         twice == SecurityHeadersDispatch(once)
     IN applied' = Some([op |-> "security_headers", before |-> headers,
                         once |-> once.headers, twice |-> twice.headers])
  /\ UNCHANGED <<now, rateVars, authVars, settings, stages, served, alerts>>

\* ------------------------------------------------------ the business handler
\* The application inside the middlewares.  req.raises is what the route
\* does: nothing (it returns), or the exception it raises.  AppException is
\* an HTTPException, which the framework answers below the middlewares with
\* the exception's status and {"detail": detail}; any other exception leaves
\* through call_next.
Route(req, ctx) ==
  Enter("handler",
    IF req.raises = Nothing
    THEN JSONResponse(200, [result |-> "ok"], ctx)
    ELSE IF "AppException" \in req.raises[1].classes
    THEN JSONResponse(req.raises[1].status_code, [detail |-> req.raises[1].detail], ctx)
    ELSE Raise(req.raises[1], ctx))

\* ---------------------------------------------------------------- the pipeline
\* The stages in the canonical order, each wrapping the next: error boundary,
\* request identification, validation, rate limiting, injection screening,
\* security headers, business handler.
Pipeline(st, c, debug, req, request_id, ctx, clock) ==
  LET identified == ResponseState(request_id, ctx)
      counted == RateLimitingCheck(c, req, identified, clock).ctx
  IN ExceptionHandlerDispatch(debug,
       ResponseDispatch(request_id,
         RequestValidationDispatch(st.validation, req, identified,
           RateLimitingDispatch(c, req, identified, clock,
             SQLInjectionDispatch(st.block_suspicious, req, counted,
               SecurityHeadersDispatch(Route(req, counted)))))))

\* The usage example of security.py: add_middleware(SecurityHeadersMiddleware),
\* then RateLimitingMiddleware, then SQLInjectionMiddleware.  add_middleware
\* puts each middleware around the ones added before it, so the one added
\* last is outermost: injection screening, rate limiting, security headers,
\* business handler.
SecurityExample(st, c, req, ctx, clock) ==
  LET counted == RateLimitingCheck(c, req, ctx, clock).ctx
  IN SQLInjectionDispatch(st.block_suspicious, req, ctx,
       RateLimitingDispatch(c, req, ctx, clock,
         SecurityHeadersDispatch(Route(req, counted))))

\* The usage example of response.py: add_middleware(ResponseMiddleware), then
\* RequestValidationMiddleware: validation, request identification, business
\* handler.
ResponseExample(st, req, request_id, ctx) ==
  RequestValidationDispatch(st.validation, req, ctx,
    ResponseDispatch(request_id, Route(req, ResponseState(request_id, ctx))))

\* The usage example of exception.py: add_middleware(ErrorLoggingMiddleware),
\* then ExceptionHandlerMiddleware, which so is outermost.  ResponseMiddleware
\* and RequestLoggingMiddleware observe inside the error logger, the first
\* around the second, which needs its request id.  `reached` is what comes
\* back to ExceptionHandlerMiddleware.
Observers(debug, a, m, req, request_id, ctx, clock) ==
  LET identified == ResponseState(request_id, ctx)
      logged == RequestLoggingDispatch(m, req, <<>>, identified, Route(req, identified))
      counted == ErrorLoggingDispatch(a, ResponseDispatch(request_id, logged.out), clock)
  IN [a |-> counted.a, alerted |-> counted.alerted, records |-> logged.records,
      reached |-> counted.out, out |-> ExceptionHandlerDispatch(debug, counted.out)]

\* The requests of the model.
ContentTypes ==
  {Nothing, Some(<<"application/json", " charset=utf-8">>), Some(<<"text/plain">>)}
ContentLengths == {Nothing, Some(Str(DEFAULT_MAX_CONTENT_LENGTH + 1)), Some(NotDecimal)}
Queries == {Some(<<<<"q">>, Plain>>), Some(<<<<"q">>, TautologyComment>>)}
\* A method and the JSON body sent with it.
Payloads == {<<"GET", Nothing>>, <<"POST", Some(JsonBody(<<"q">>, Tautology))>>}
Raisables ==
  {Nothing, Some(ExcOf({}, "stack at 0x7f")), Some(ExcOf({"AppException"}, "stack at 0x7f"))}
Requests ==
  {[method |-> payload[1], body |-> payload[2], path |-> path, client |-> client,
    content_type |-> content_type, content_length |-> content_length,
    query |-> query, raises |-> raises] :
     payload \in Payloads, path \in {"/login", "/health"}, client \in Clients,
     content_type \in ContentTypes, content_length \in ContentLengths,
     query \in Queries, raises \in Raisables}
\* The request recorded with a call of the boundary alone.
NoRequest ==
  [method |-> "GET", path |-> "/health", client |-> None, content_type |-> Nothing,
   content_length |-> Nothing, query |-> Nothing, body |-> Nothing, raises |-> Nothing]

\* The instances as the application would build them.
StagesInit(block_suspicious, max_content_length, allowed_content_types) ==
  [block_suspicious |-> block_suspicious,
   validation |-> RequestValidationInit(max_content_length, allowed_content_types)]
PipeIdle ==
  /\ settings = [DEBUG |-> TRUE]
  /\ stages = StagesInit(TRUE, DEFAULT_MAX_CONTENT_LENGTH, Nothing)
  /\ served = Nothing
  /\ applied = Nothing
  /\ alerts = ErrorLoggingInit(DEFAULT_ALERT_THRESHOLD, DEFAULT_ALERT_INTERVAL)
Served == IF served = Nothing THEN 0 ELSE served[1].n

\* One request goes through the pipeline.
Serve(req) ==
  /\ Served < MaxServed
  /\ LET request_id == Uuid4(Served + 1)
         ctx == [store |-> requests, db |-> redis, request_id |-> Nothing]
         out == Pipeline(stages, cfg, settings.DEBUG, req, request_id, ctx, now)
     IN /\ requests' = out.ctx.store
        /\ redis' = out.ctx.db
        /\ served' = Some([n |-> Served + 1, op |-> "serve", req |-> req,
                           raised |-> req.raises, request_id |-> Some(request_id),
                           out |-> out])
  /\ UNCHANGED <<now, cfg, log, authVars, settings, stages, applied, alerts>>

\* ExceptionHandlerMiddleware.dispatch around a call_next that raises exc,
\* with request.state.request_id set to an id or not set.
Boundary(exc, request_id) ==
  /\ LET ctx == [store |-> requests, db |-> redis, request_id |-> request_id]
         out == ExceptionHandlerDispatch(settings.DEBUG, Raise(exc, ctx))
     IN served' = Some([n |-> Served, op |-> "boundary", req |-> NoRequest,
                        raised |-> Some(exc), request_id |-> request_id, out |-> out])
  /\ UNCHANGED <<now, rateVars, authVars, settings, stages, applied, alerts>>

\* A request goes through ErrorLoggingMiddleware.dispatch: call_next returns
\* a response, or raises exc.
ErrorLog(raises) ==
  /\ Served < MaxReq
  /\ LET ctx == [store |-> requests, db |-> redis, request_id |-> Nothing]
         inner == IF raises = Nothing THEN JSONResponse(200, [result |-> "ok"], ctx)
                  ELSE Raise(raises[1], ctx)
         r == ErrorLoggingDispatch(alerts, inner, now)
     IN /\ alerts' = r.a
        /\ served' = Some([n |-> Served + 1, op |-> "error_log", req |-> NoRequest,
                           raised |-> raises, request_id |-> Nothing, out |-> r.out,
                           alerted |-> r.alerted])
  /\ UNCHANGED <<now, rateVars, authVars, settings, stages, applied>>

\* The application as built: exc leaves the routes and the global handler
\* answers it.
Global(exc) ==
  /\ LET ctx == [store |-> requests, db |-> redis, request_id |-> Nothing]
         out == GlobalExceptionHandler(settings.DEBUG, exc, ctx)
     IN served' = Some([n |-> Served, op |-> "global", req |-> NoRequest,
                        raised |-> Some(exc), request_id |-> Nothing,
                        out |-> [out EXCEPT !.caught = Some(exc)]])
  /\ UNCHANGED <<now, rateVars, authVars, settings, stages, applied, alerts>>


\* One request goes through the application of the usage example of security.py.
ServeSecurityExample(req) ==
  /\ Served < MaxServed
  /\ LET ctx == [store |-> requests, db |-> redis, request_id |-> Nothing]
         out == SecurityExample(stages, cfg, req, ctx, now)
     IN /\ requests' = out.ctx.store
        /\ redis' = out.ctx.db
        /\ served' = Some([n |-> Served + 1, op |-> "security_example", req |-> req,
                           raised |-> req.raises, request_id |-> Nothing, out |-> out])
  /\ UNCHANGED <<now, cfg, log, authVars, settings, stages, applied, alerts>>

\* One request goes through the application of the usage example of response.py.
ServeResponseExample(req) ==
  /\ Served < MaxServed
  /\ LET request_id == Uuid4(Served + 1)
         ctx == [store |-> requests, db |-> redis, request_id |-> Nothing]
         out == ResponseExample(stages, req, request_id, ctx)
     IN /\ requests' = out.ctx.store
        /\ redis' = out.ctx.db
        /\ served' = Some([n |-> Served + 1, op |-> "response_example", req |-> req,
                           raised |-> req.raises, request_id |-> Some(request_id),
                           out |-> out])
  /\ UNCHANGED <<now, cfg, log, authVars, settings, stages, applied, alerts>>

\* One request goes through SQLInjectionMiddleware.dispatch around the routes.
ScreenRequest(req) ==
  /\ Served < MaxServed
  /\ LET ctx == [store |-> requests, db |-> redis, request_id |-> Nothing]
         out == SQLInjectionDispatch(stages.block_suspicious, req, ctx, Route(req, ctx))
     IN served' = Some([n |-> Served + 1, op |-> "screen", req |-> req,
                        raised |-> req.raises, request_id |-> Nothing, out |-> out])
  /\ UNCHANGED <<now, rateVars, authVars, settings, stages, applied, alerts>>

\* One request goes through RequestLoggingMiddleware.dispatch around the
\* routes, request.state.request_id being set or not.
LogDispatch(sensitive_headers, log_request_body, req, headers, request_id) ==
  /\ applied = Nothing
  /\ LET m == RequestLoggingInit(Nothing, sensitive_headers, log_request_body)
         ctx == [store |-> requests, db |-> redis, request_id |-> request_id]
         r == RequestLoggingDispatch(m, req, headers, ctx, Route(req, ctx))
     IN applied' = Some([op |-> "request_logging", m |-> m, req |-> req,
                         headers |-> headers, request_id |-> request_id,
                         records |-> r.records, out |-> r.out])
  /\ UNCHANGED <<now, rateVars, authVars, settings, stages, served, alerts>>

\* One request goes through the error boundary and the observers.
Observe(req) ==
  /\ Served < MaxReq
  /\ LET request_id == Uuid4(Served + 1)
         ctx == [store |-> requests, db |-> redis, request_id |-> Nothing]
         r == Observers(settings.DEBUG, alerts, RequestLoggingInit(Nothing, Nothing, FALSE),
                        req, request_id, ctx, now)
     IN /\ alerts' = r.a
        /\ served' = Some([n |-> Served + 1, op |-> "observe", req |-> req,
                           raised |-> req.raises, request_id |-> Some(request_id),
                           out |-> r.out, alerted |-> r.alerted, reached |-> r.reached,
                           records |-> r.records])
  /\ UNCHANGED <<now, rateVars, authVars, settings, stages, applied>>

\* ------------------------------------------------------------ specifications
\* The overrides a caller may declare: none, or one for the login route.
OverrideLimits == {1}
PathOverrides == {Nothing} \cup {Some([p \in {"/login"} |-> l]) : l \in OverrideLimits}

InitRate ==
  /\ now = 0
  /\ \E redis_client \in BOOLEAN, rate_limit \in Limits, by_path \in PathOverrides,
        window_size \in WindowSizes, exclude_paths \in {Nothing} :
       cfg = RateLimitingInit(redis_client, rate_limit, by_path, window_size, exclude_paths)
  /\ requests = <<>>
  /\ redis = <<>>
  /\ log = <<>>
  /\ users = <<>>
  /\ authRes = BaseRes
  /\ PipeIdle

NextRate ==
  \/ \E client \in Clients, path \in Paths : Dispatch(client, path)
  \/ \E key \in DOMAIN redis : RedisExpire(key)
  \/ Tick

SpecRate == InitRate /\ [][NextRate]_vars

\* The rate limiter built with the exclude_paths a caller may pass: none,
\* the empty set, a set of its own.  `applied` keeps the argument.
ExcludePathsArgs == {Nothing, Some({}), Some({"/me"})}
InitExempt ==
  /\ now = 0
  /\ \E redis_client \in BOOLEAN, rate_limit \in {0, 1}, exclude_paths \in ExcludePathsArgs :
       /\ cfg = RateLimitingInit(redis_client, rate_limit, Nothing, 1, exclude_paths)
       /\ applied = Some([op |-> "init", exclude_paths |-> exclude_paths])
  /\ requests = <<>>
  /\ redis = <<>>
  /\ log = <<>>
  /\ users = <<>>
  /\ authRes = BaseRes
  /\ settings = [DEBUG |-> TRUE]
  /\ stages = StagesInit(TRUE, DEFAULT_MAX_CONTENT_LENGTH, Nothing)
  /\ served = Nothing
  /\ alerts = ErrorLoggingInit(DEFAULT_ALERT_THRESHOLD, DEFAULT_ALERT_INTERVAL)
SpecExempt == InitExempt /\ [][NextRate]_vars

\* The auth endpoints, behind a rate limiter built with its defaults.
DEFAULT_RATE_LIMIT == 100
DEFAULT_WINDOW_SIZE == 60
InitAuth ==
  /\ now = 0
  /\ cfg = RateLimitingInit(FALSE, DEFAULT_RATE_LIMIT, Nothing, DEFAULT_WINDOW_SIZE, Nothing)
  /\ requests = <<>>
  /\ redis = <<>>
  /\ log = <<>>
  /\ users = <<>>
  /\ authRes = BaseRes
  /\ PipeIdle

NextAuth ==
  \/ \E email \in Emails, password \in RegisterPasswords, is_active \in BOOLEAN :
       Register(email, password, is_active)
  \/ \E email \in Emails, password \in Passwords : Login(email, password)
  \/ \E d \in TokenDescriptors(0 .. MaxIssue) : Refresh(d)
  \/ \E d \in GenuineDescriptors({"access"}, 0 .. MaxIssue),
        coerces \in BOOLEAN, is_active \in BOOLEAN :
       UpdateUserMe(d, coerces, is_active)
  \/ Tick

SpecAuth == InitAuth /\ [][NextAuth]_vars

\* Token verification alone, over a users table two registrations leave.
SeedUsers ==
  <<[email |-> "ann@example.com", hashed_password |-> GetPasswordHash("secret-1"),
     is_active |-> TRUE],
    [email |-> "bob@example.com", hashed_password |-> GetPasswordHash("secret-1"),
     is_active |-> FALSE]>>
InitToken ==
  /\ now = 0
  /\ cfg = RateLimitingInit(FALSE, DEFAULT_RATE_LIMIT, Nothing, DEFAULT_WINDOW_SIZE, Nothing)
  /\ requests = <<>>
  /\ redis = <<>>
  /\ log = <<>>
  /\ users = SeedUsers
  /\ authRes = BaseRes
  /\ PipeIdle

NextToken ==
  \/ \E d \in TokenDescriptors(0 .. now), coerces \in BOOLEAN : ReadUsersMe(d, coerces)
  \/ \E d \in TokenDescriptors(0 .. now) : Refresh(d)
  \/ Tick

SpecToken == InitToken /\ [][NextToken]_vars

\* The pipeline, with an in-memory rate limiter that admits no request, or
\* one per second, on a path that is not exempt.
InitPipe ==
  /\ now = 0
  /\ \E rate_limit \in {0, 1} : cfg = RateLimitingInit(FALSE, rate_limit, Nothing, 1, Nothing)
  /\ requests = <<>>
  /\ redis = <<>>
  /\ log = <<>>
  /\ users = <<>>
  /\ authRes = BaseRes
  /\ settings \in [DEBUG : BOOLEAN]
  /\ \E block_suspicious \in BOOLEAN :
       stages = StagesInit(block_suspicious, DEFAULT_MAX_CONTENT_LENGTH, Nothing)
  /\ served = Nothing
  /\ applied = Nothing
  /\ alerts = ErrorLoggingInit(DEFAULT_ALERT_THRESHOLD, DEFAULT_ALERT_INTERVAL)

NextPipe == \E req \in Requests : Serve(req)

SpecPipe == InitPipe /\ [][NextPipe]_vars

\* The error boundary alone, over every exception of the model.
NextBoundary ==
  \/ \E exc \in Exceptions : "AppException" \notin exc.classes /\ Global(exc)
  \/ \E exc \in Exceptions, request_id \in {Nothing, Some(Uuid4(0))} :
       Boundary(exc, request_id)

SpecBoundary == InitPipe /\ [][NextBoundary]_vars

\* ErrorLoggingMiddleware on its own, the clock running.
InitErrorLog ==
  /\ now = 0
  /\ cfg = RateLimitingInit(FALSE, DEFAULT_RATE_LIMIT, Nothing, DEFAULT_WINDOW_SIZE, Nothing)
  /\ requests = <<>>
  /\ redis = <<>>
  /\ log = <<>>
  /\ users = <<>>
  /\ authRes = BaseRes
  /\ settings = [DEBUG |-> TRUE]
  /\ stages = StagesInit(TRUE, DEFAULT_MAX_CONTENT_LENGTH, Nothing)
  /\ served = Nothing
  /\ applied = Nothing
  /\ \E alert_threshold \in {1, 2}, alert_interval \in {0, 1} :
       alerts = ErrorLoggingInit(alert_threshold, alert_interval)
NextErrorLog ==
  \/ \E raises \in Raisables : ErrorLog(raises)
  \/ Tick
SpecErrorLog == InitErrorLog /\ [][NextErrorLog]_vars

\* The security-headers stage on its own.
NextHeaders == \E headers \in HeaderLists : ApplySecurityHeaders(headers)
SpecHeaders == InitPipe /\ [][NextHeaders]_vars

\* The applications of the two usage examples.  No stage of the first reads
\* the content headers, and none of the second the query or the body.
SecurityExampleRequests ==
  {req \in Requests : req.content_type = Nothing /\ req.content_length = Nothing}
ResponseExampleRequests ==
  {req \in Requests : req.method = "GET" /\ req.query = Some(<<<<"q">>, Plain>>)}
NextExamples ==
  \/ \E req \in SecurityExampleRequests : ServeSecurityExample(req)
  \/ \E req \in ResponseExampleRequests : ServeResponseExample(req)

SpecExamples == InitPipe /\ [][NextExamples]_vars

\* The injection screen alone, over every method that takes a body and
\* bodies of two encodings.
Methods == {"GET", "POST", "PUT", "PATCH", "DELETE"}
Bodies ==
  {Nothing, Some(JsonBody(<<"q">>, Plain)), Some(JsonBody(<<"q">>, Tautology)),
   Some(TextBody(TautologyComment))}
ScreenRequests ==
  {[method |-> method, body |-> body, path |-> "/login", client |-> "10.0.0.1",
    content_type |-> Nothing, content_length |-> Nothing, query |-> query,
    raises |-> Nothing] :
     method \in Methods, body \in Bodies, query \in Queries}
NextScreen == \E req \in ScreenRequests : ScreenRequest(req)

SpecScreen == InitPipe /\ [][NextScreen]_vars

\* The request logger alone.  dict(request.headers) of the model's requests:
\* some of three headers, each with one of two values.
HeaderDicts ==
  UNION {[names -> {"a", "b"}] : names \in SUBSET {"authorization", "Cookie", "accept"}}
LoggedRequests ==
  {req \in Requests : /\ req.content_type = Nothing /\ req.content_length = Nothing
                      /\ req.query = Some(<<<<"q">>, Plain>>)}
NextLogging ==
  \E sensitive_headers \in {Nothing, Some({"accept"})}, log_request_body \in BOOLEAN,
     req \in LoggedRequests, headers \in HeaderDicts,
     request_id \in {Nothing, Some(Uuid4(1))} :
    LogDispatch(sensitive_headers, log_request_body, req, headers, request_id)

SpecLogging == InitPipe /\ [][NextLogging]_vars

\* The error boundary around the observers.
NextObservers ==
  \/ \E req \in LoggedRequests : Observe(req)
  \/ Tick

SpecObservers == InitErrorLog /\ [][NextObservers]_vars

\* ------------------------------------------------ the rate limiter's claims
\* The checks recorded in the log: requests that reached _check_rate_limit.
Checks == {i \in DOMAIN log : log[i].checked}
\* The checks on check i's key up to and including i, in dispatch order.
ChecksUpTo(i) == {j \in Checks : j <= i /\ log[j].key = log[i].key}
\* Those among them whose timestamp lies in check i's trailing window.
InWindowOf(i) == {j \in ChecksUpTo(i) : log[j].t > log[i].t - cfg.window_size}
\* The permitted checks on check i's key whose timestamps lie in (T - window_size, T].
PermittedIn(i, T) ==
  {j \in Checks : /\ log[j].key = log[i].key
                  /\ log[j].allowed
                  /\ T - cfg.window_size < log[j].t
                  /\ log[j].t <= T}

\* C1 (rate-limit safety): for every key and every trailing window of
\* window_size seconds, the checks on that key that returned permitted = true
\* and whose timestamps lie in the window number at most the key's limit.
C1_PermittedPerWindow ==
  \A i \in Checks : \A T \in 0 .. Sec(MaxTime) :
    Cardinality(PermittedIn(i, T)) <= log[i].limit

\* C2 (rate-limit boundary): of the first L+1 requests on a key (L >= 1) that
\* arrive within window_size seconds of the first, the first L are passed to
\* the next stage and the (L+1)-th is answered 429 with Retry-After equal to
\* window_size and is not passed on.
C2_Boundary ==
  \A i \in Checks :
    LET first == CHOOSE j \in ChecksUpTo(i) : \A k \in ChecksUpTo(i) : j <= k
        n == Cardinality(ChecksUpTo(i))
    IN (log[i].limit >= 1 /\ log[i].t - log[first].t < cfg.window_size) =>
         /\ n <= log[i].limit => log[i].response = CallNext
         /\ n = log[i].limit + 1 =>
              /\ log[i].response.status = 429
              /\ log[i].response.retry_after = Some(Str(cfg.window_size))
              /\ log[i].response # CallNext

\* C3 (shared-store mode): with a Redis client, every request is recorded as
\* its own window entry, so the count a request observes is the number of
\* requests recorded on its key in its trailing window (itself included), and
\* at most `limit` requests are permitted per window.
C3_RedisCountsEveryRequest ==
  cfg.redis =>
    \A i \in Checks :
      /\ log[i].count = Cardinality(InWindowOf(i))
      /\ Cardinality(PermittedIn(i, log[i].t)) <= log[i].limit

\* C4 as stated (in-memory mode): no two requests on one key that lie in one
\* window observe the same count; the later recorded observes the larger.
C4_DistinctCountsInWindow ==
  ~cfg.redis =>
    \A i, j \in Checks :
      (i < j /\ log[i].key = log[j].key /\ log[j].t - log[i].t < cfg.window_size)
        => log[i].count < log[j].count

\* C4 as amended (in-memory mode): every request observes exactly the number
\* of requests recorded on its key in its trailing window, itself included;
\* and of two requests between which no recorded entry of the key expired,
\* the later recorded observes the count of the earlier plus the number of
\* requests recorded since.
C4_MemCountsInOrder ==
  ~cfg.redis =>
    \A j \in Checks :
      /\ log[j].count = Cardinality(InWindowOf(j))
      /\ \A i \in ChecksUpTo(j) :
           (i < j /\ InWindowOf(i) \subseteq InWindowOf(j))
             => log[j].count = log[i].count + Cardinality(ChecksUpTo(j) \ ChecksUpTo(i))

\* Two requests on one key in the same clock second, in-memory mode, and a
\* third after an older entry expired.
C4_Witness ==
  /\ ~cfg.redis
  /\ \E i, j, k \in Checks :
       /\ i < j /\ j < k
       /\ log[i].key = log[j].key /\ log[j].key = log[k].key
       /\ log[i].t = log[j].t
       /\ log[j].count = 2
       /\ ~(InWindowOf(j) \subseteq InWindowOf(k))


\* The token service alone: expires_delta is None, a zero timedelta or a
\* number of ticks.
IssueDeltas == {Nothing} \cup {Some(d) : d \in 0 .. MaxTtl}
NextIssue ==
  \/ \E kind \in {"access", "refresh"}, subject \in Subjects, d \in IssueDeltas :
       Issue(kind, subject, d)
  \/ Tick

SpecIssue == InitToken /\ [][NextIssue]_vars

\* --------------------------------------------------- the auth core's claims
\* The descriptor of the token the last call presented.
Presented == authRes.presented[1]
TokenCall == authRes.op \in {"verify", "refresh"} /\ authRes.presented # Nothing

\* C5 (login success): a login with the email and password of an active user
\* returns a token pair {access_token, refresh_token, token_type = "bearer",
\* expires_in} whose access token's subject decodes to that user's id.
C5_LoginReturnsTokenPair ==
  (authRes.op = "login" /\ authRes.known /\ authRes.pw_ok /\ authRes.active) =>
    /\ authRes.kind = "ok"
    /\ authRes.body # Nothing
    /\ DOMAIN authRes.body[1] = {"access_token", "refresh_token", "token_type", "expires_in"}
    /\ authRes.body[1].token_type = "bearer"
    /\ LET decoded == JwtDecode(authRes.body[1].access_token, SECRET_KEY, authRes.at)
       IN decoded.ok /\ IntOf(decoded.payload.sub) = authRes.uid

\* C6 (login failure): a login whose email is unknown or whose password does
\* not verify against the stored hash ends in a 401 and returns no token.
C6_LoginFailure ==
  (authRes.op = "login" /\ (~authRes.known \/ ~authRes.pw_ok)) =>
    /\ authRes.kind = "HTTPException"
    /\ authRes.status = 401
    /\ authRes.body = Nothing

\* A login with a registered email and a password that is not the user's.
C6_Witness ==
  /\ authRes.op = "login" /\ authRes.known /\ ~authRes.pw_ok
  /\ authRes.status = 401

\* C7 (token round trip): verifying a token made by
\* create_access_token(subject, ttl), ttl > 0, at any instant before
\* issue time + ttl succeeds and yields claims with that subject and type
\* "access".
C7_RoundTrip ==
  (/\ authRes.op = "verify" /\ authRes.presented # Nothing
   /\ Genuine(Presented) /\ Presented.origin = "access"
   /\ Presented.delta # Nothing /\ Presented.delta[1] > 0
   /\ authRes.at < Presented.issued_at + Presented.delta[1]) =>
    /\ authRes.verified
    /\ authRes.claims # Nothing
    /\ authRes.claims[1].sub = Str(Presented.subject)
    /\ authRes.claims[1].type = "access"

\* A token made in the second half of a second and verified in the next
\* second, before its lifetime is over.
C7_Witness ==
  /\ authRes.op = "verify" /\ authRes.presented # Nothing
  /\ Genuine(Presented) /\ Presented.origin = "access" /\ Presented.delta # Nothing
  /\ Presented.issued_at < authRes.at
  /\ Sec(Presented.issued_at) < Sec(authRes.at)
  /\ authRes.at < Presented.issued_at + Presented.delta[1]
  /\ authRes.verified

\* The instant the presented token expires, in ticks.
PresentedExpiresAt == ExpiresAt(Presented.origin, Presented.delta, Presented.issued_at)

\* C8 (token expiry boundary): a token verified at a clock value equal to
\* its expiresAt, or later, fails; verified one second before expiresAt it
\* succeeds.
C8_FailsFromExpiresAt ==
  (TokenCall /\ Genuine(Presented)) =>
    /\ authRes.at >= PresentedExpiresAt => ~authRes.verified
    /\ authRes.at = PresentedExpiresAt - Res => authRes.verified

\* C9 (refresh outcome): the refresh endpoint returns a new access + refresh
\* pair for the same subject exactly when the presented token verifies and
\* the user it names exists and is active; in every other case it answers
\* 401 and issues no token.
C9_RefreshOutcome ==
  authRes.op = "refresh" =>
    IF authRes.verified /\ authRes.known /\ authRes.active
    THEN /\ authRes.kind = "ok"
         /\ authRes.body # Nothing
         /\ authRes.body[1].access_token.payload.sub = Str(authRes.uid)
         /\ authRes.body[1].refresh_token.payload.sub = Str(authRes.uid)
    ELSE /\ authRes.status = 401
         /\ authRes.body = Nothing

C11_NoVerificationOracle ==
  (TokenCall /\ ~authRes.verified) =>
    /\ authRes.status = 401
    /\ authRes.detail = IF authRes.op = "verify"
                        THEN "Could not validate credentials"
                        ELSE "Invalid refresh token"

\* C31: a token made with an explicitly supplied ttl, a zero ttl included,
\* expires at the clock value of its issuance plus that ttl (in the whole
\* seconds the exp claim is written in); the configured default lifetime is
\* used only when no ttl is supplied.
C31_ExpiryEqualsTtl ==
  (applied # Nothing /\ applied[1].op = "issue") =>
    applied[1].token.payload.exp =
      Sec(applied[1].at
            + (IF applied[1].expires_delta # Nothing THEN applied[1].expires_delta[1]
               ELSE Minutes(IF applied[1].kind = "access"
                            THEN ACCESS_TOKEN_EXPIRE_MINUTES
                            ELSE REFRESH_TOKEN_EXPIRE_MINUTES)))

\* C32: a token made by create_access_token is rejected by the refresh
\* endpoint, a token made by create_refresh_token is rejected by
\* get_current_user, and the type a verification reports is the type the
\* token was issued with.
C32_TypesNotInterchangeable ==
  (TokenCall /\ Genuine(Presented)) =>
    /\ (authRes.op = "refresh" /\ Presented.origin = "access") => authRes.status = 401
    /\ (authRes.op = "verify" /\ Presented.origin = "refresh") => authRes.status = 401
    /\ (authRes.op = "verify" /\ authRes.claims # Nothing) =>
         authRes.claims[1].type = Presented.origin

\* C33: while a user's is_active flag is false, no call authenticates as
\* that user: a login with the user's email, a refresh of a token naming the
\* user and a call that presents an access token of the user to
\* get_current_user all fail.
C33_DeactivationCutsOff ==
  [][\A uid \in DOMAIN users :
       (~users[uid].is_active /\ authRes' # authRes) =>
         /\ (authRes'.op \in {"login", "refresh"} /\ authRes'.uid = uid)
              => authRes'.kind # "ok"
         /\ (/\ authRes'.op = "update" /\ authRes'.presented # Nothing
             /\ Genuine(authRes'.presented[1])
             /\ authRes'.presented[1].origin = "access"
             /\ authRes'.presented[1].subject = uid)
              => authRes'.kind # "ok"]_vars

\* C34: a login with an email that has no account is answered with the
\* status, message and headers every login with an existing email and a
\* wrong password gets.
C34_NoAccountEnumeration ==
  (authRes.op = "login" /\ ~authRes.known) =>
    \A email \in Emails, password \in Passwords :
      LET user == UserByEmail(users, email)
          o == LoginHandler(users, email, password, now)
      IN (user # Nothing /\ ~VerifyPassword(password, users[user[1]].hashed_password)) =>
           /\ o.status = authRes.status
           /\ o.detail = authRes.detail
           /\ o.headers = authRes.headers
           /\ o.body = authRes.body
\* A login with an unknown email while another email has an account, whose
\* login with a wrong password is answered 401.
C34_Witness ==
  /\ authRes.op = "login" /\ ~authRes.known /\ authRes.status = 401
  /\ authRes.headers = <<<<"WWW-Authenticate", "Bearer">>>>
  /\ \E email \in Emails, password \in Passwords :
       /\ UserByEmail(users, email) # Nothing
       /\ ~VerifyPassword(password, users[UserByEmail(users, email)[1]].hashed_password)
       /\ LoginHandler(users, email, password, now).status = 401

\* The paths the caller of the constructor exempted: the ones passed, the
\* documented default when none are passed.
ConfiguredExempt ==
  IF applied[1].exclude_paths = Nothing THEN DefaultExcludePaths
  ELSE applied[1].exclude_paths[1]
\* The request dispatched by the step, when the step dispatches one.
Dispatched == log'[Len(log')]

\* C22: a request is exempt from the check exactly when its path is in the
\* set the caller configured; an exempt request goes on to call_next, is
\* not answered 429 and leaves the in-memory windows and the Redis windows
\* as they were.
C22_Exemption ==
  [][Len(log') = Len(log) + 1 =>
       /\ Dispatched.path \in ConfiguredExempt <=> ~Dispatched.checked
       /\ ~Dispatched.checked =>
            /\ Dispatched.response = CallNext
            /\ requests' = requests /\ redis' = redis]_vars

\* C23: the limit a request is checked against is the override declared for
\* its own path when there is one and the global rate_limit otherwise, and
\* the request is permitted exactly when its count is within that limit.
C23_PerRouteLimit ==
  \A i \in Checks :
    /\ log[i].limit = IF log[i].path \in DOMAIN cfg.rate_limit_by_path
                      THEN cfg.rate_limit_by_path[log[i].path]
                      ELSE cfg.rate_limit
    /\ log[i].allowed <=> log[i].count <= log[i].limit
\* An override is declared for /login; a request to /login was checked
\* against it and a request to /me against the other, global limit.
C23_Witness ==
  /\ "/login" \in DOMAIN cfg.rate_limit_by_path
  /\ cfg.rate_limit_by_path["/login"] # cfg.rate_limit
  /\ \E i, j \in Checks :
       /\ log[i].path = "/login" /\ log[i].limit = cfg.rate_limit_by_path["/login"]
       /\ log[j].path = "/me" /\ log[j].limit = cfg.rate_limit

\* The checks up to check i of requests with i's client address and i's
\* path whose timestamps lie in i's trailing window.
OwnInWindow(i) ==
  {j \in Checks : /\ j <= i
                  /\ log[j].client = log[i].client /\ log[j].path = log[i].path
                  /\ log[j].t > log[i].t - cfg.window_size}
\* The count a check observes is made of requests of its own client address
\* and path only.
CountsOwnKey ==
  \A i \in Checks :
    /\ log[i].count >= 1 /\ log[i].count <= Cardinality(OwnInWindow(i))
    /\ ~cfg.redis => log[i].count = Cardinality(OwnInWindow(i))
\* A check changes the window of its own key only.
OtherKeysUnchanged ==
  (Len(log') = Len(log) + 1 /\ Dispatched.checked) =>
    /\ \A k \in DOMAIN requests \ {Dispatched.key} :
         k \in DOMAIN requests' /\ requests'[k] = requests[k]
    /\ DOMAIN requests' \subseteq DOMAIN requests \cup {Dispatched.key}
    /\ \A k \in DOMAIN redis \ {Dispatched.key} :
         k \in DOMAIN redis' /\ redis'[k] = redis[k]
    /\ DOMAIN redis' \subseteq DOMAIN redis \cup {Dispatched.key}

\* C24: the key of a check is made of the client address and the path; a
\* check leaves the window of every other key as it was, and the count it
\* observes, hence its admission, depends on the requests of its own client
\* address and path only.
C24_KeyIndependence == []CountsOwnKey /\ [][OtherKeysUnchanged]_vars
\* Two clients, and one client on two paths, were checked in one window, each
\* counted on its own.
C24_Witness ==
  \E i, j, k \in Checks :
    /\ i < j /\ j < k
    /\ log[i].t = log[k].t
    /\ log[i].client # log[j].client /\ log[i].path = log[j].path
    /\ log[k].client = log[i].client /\ log[k].path # log[i].path
    /\ log[i].count = 1 /\ log[j].count = 1 /\ log[k].count = 1

\* The rejected checks before check j that lie in j's trailing window.
RejectedBefore(j) == {i \in InWindowOf(j) : i < j /\ ~log[i].allowed}

\* C26: a rejected request is recorded: the count a request observes
\* includes, besides the request itself, every earlier rejected request on
\* its key in its trailing window, and a request that finds more than
\* `limit` requests recorded in its window, itself included, is rejected.
C26_RejectedAreRecorded ==
  \A j \in Checks :
    /\ log[j].count >= 1 + Cardinality(RejectedBefore(j))
    /\ Cardinality(InWindowOf(j)) > log[j].limit => ~log[j].allowed

\* The timestamps in the window of a key in the stores s (in-memory) and d
\* (Redis), and the number of its entries.
WindowOf(s, d, key) ==
  IF cfg.redis THEN {e.score : e \in d[key].zset}
  ELSE {s[key][i] : i \in DOMAIN s[key]}
EntriesOf(s, d, key) ==
  IF cfg.redis THEN Cardinality(d[key].zset) ELSE Len(s[key])
\* The window of the checked key right after a check.
WindowAfterCheck ==
  (Len(log') = Len(log) + 1 /\ Dispatched.checked) =>
    LET t == Dispatched.t
        window == WindowOf(requests', redis', Dispatched.key)
    IN /\ t \in window
       /\ \A ts \in window : t - cfg.window_size < ts /\ ts <= t
       /\ Dispatched.count = EntriesOf(requests', redis', Dispatched.key)

\* C27: right after a check on a key at second t the key's window holds t
\* and only timestamps ts with t - window_size < ts <= t, and the count the
\* check returned is the number of entries of the window.
C27_WindowInvariant == [][WindowAfterCheck]_vars
\* The last check on a key found an entry exactly window_size old, purged
\* it and counted itself alone.
C27_Witness ==
  /\ Len(log) >= 2 /\ log[Len(log)].checked
  /\ \E i \in Checks :
       /\ i < Len(log) /\ log[i].key = log[Len(log)].key
       /\ log[i].t = log[Len(log)].t - cfg.window_size
  /\ log[Len(log)].count = 1
  /\ cfg.redis => log[Len(log)].key \in DOMAIN redis
  /\ WindowOf(requests, redis, log[Len(log)].key) = {log[Len(log)].t}

\* C28: with a limit of at least 1, a request that comes window_size seconds
\* or more after the latest request on its key, or first on its key, counts
\* itself alone and is permitted, whatever was recorded before.
C28_Recovery ==
  \A j \in Checks :
    (/\ log[j].limit >= 1
     /\ \A i \in ChecksUpTo(j) \ {j} : log[j].t - log[i].t >= cfg.window_size)
      => log[j].allowed /\ log[j].count = 1
\* A key had a request rejected; window_size seconds later its next request
\* is permitted.
C28_Witness ==
  \E i, j \in Checks :
    /\ i < j /\ log[i].key = log[j].key
    /\ ~log[i].allowed /\ log[j].limit >= 1
    /\ log[j].t - log[i].t = cfg.window_size
    /\ log[j].allowed

\* ---------------------------------------------------------- pipeline claims
\* The request that went through the pipeline last, and what came back.
ServedRequest == served # Nothing /\ served[1].op = "serve"
Out == served[1].out
Entered(stage) == \E i \in DOMAIN Out.ran : Out.ran[i] = stage
\* Some screened part of the request matches some pattern.
Matches(req) ==
  \E i \in DOMAIN GetRequestData(req) : CheckSqlInjection(GetRequestData(req)[i])
\* The response of a stage that rejects with a plain text.
Rejected(status_code, content) ==
  /\ Out.kind = "response" /\ Out.status = status_code
  /\ Out.media = "" /\ Out.content = content

\* C12: with block_suspicious enabled, a request that reaches the injection
\* screen is answered 400 "Invalid request", the security-headers stage and
\* the business handler not being entered, if and only if one of its
\* screened parts matches a pattern.
C12_BlockedIffMatch ==
  (ServedRequest /\ stages.block_suspicious /\ Entered("injection")) =>
    ((Rejected(400, "Invalid request") /\ ~Entered("security_headers")
                                       /\ ~Entered("handler"))
       <=> Matches(served[1].req))

\* A response whose body is the ErrorResponse model.
IsEnvelope(out) ==
  /\ out.kind = "response" /\ out.media = "application/json"
  /\ DOMAIN out.content = {"error_code", "message", "details", "trace_id"}
\* The exception is in none of the classes the boundary knows.
Unknown(exc) == exc.classes \cap ExcClasses = {}

\* C13: every request gets one response, whatever the handler or a stage
\* raised; an exception of the handler that is no AppException reaches the
\* boundary, and the response made from an exception in none of the known
\* classes has status 500 and error code 5001, and null details when DEBUG
\* is off.
C13_SingleTranslatedResponse ==
  ServedRequest =>
    /\ Out.kind = "response"
    /\ (Entered("handler") /\ served[1].raised # Nothing
          /\ "AppException" \notin served[1].raised[1].classes)
         => Out.caught = served[1].raised
    /\ (Out.caught # Nothing /\ Unknown(Out.caught[1])) =>
         /\ Out.status = 500 /\ IsEnvelope(Out)
         /\ Out.content.error_code = 5001
         /\ Out.content.message = "Internal server error"
         /\ ~settings.DEBUG => Out.content.details = Nothing
\* The handler raised an exception of no known class, DEBUG off.
C13_Witness ==
  /\ ServedRequest /\ ~settings.DEBUG /\ Entered("handler")
  /\ served[1].raised # Nothing /\ Unknown(served[1].raised[1])
  /\ Out.caught = served[1].raised /\ Out.status = 500

PipelineHeaders == {"X-Request-ID", "X-Process-Time"} \cup DOMAIN SecurityHeaders

\* C17: every response that leaves the pipeline, of the handler, of a stage
\* that rejects or of the error boundary, carries X-Request-ID,
\* X-Process-Time and the seven security headers with their fixed values.
C17_HeadersOnEveryResponse ==
  (ServedRequest /\ Out.kind = "response") =>
    /\ PipelineHeaders \subseteq HeaderNames(Out.headers)
    /\ \A h \in DOMAIN SecurityHeaders :
         GetHeader(Out.headers, h) = SecurityHeaders[h]

\* C18: every response a stage rejects a request with (415, 413, 429, 400)
\* and every response made after a failure of the handler or of a stage has
\* a JSON body of the shape {error_code, message, details, trace_id}.
C18_UniformErrorShape ==
  (ServedRequest /\ (Out.status \in {400, 413, 415, 429} \/ Out.caught # Nothing
                       \/ (Entered("handler") /\ served[1].raised # Nothing))) =>
    IsEnvelope(Out)

\* The stages and the handler in the order of the pipeline.
StageOrder ==
  <<"exception_handler", "request_id", "validation", "rate_limit", "injection",
    "security_headers", "handler">>
\* The stage entered last.
LastEntered == Out.ran[Len(Out.ran)]
\* The media type of the request is none of the allowed ones.
Unsupported(req) ==
  /\ req.content_type # Nothing
  /\ req.content_type[1][1] \notin stages.validation.allowed_content_types

C20_StagesNeverRaise ==
  (ServedRequest /\ Out.caught # Nothing) =>
    (Entered("handler") /\ Out.caught = served[1].raised)

\* A request went through a composition of the stages.
Answered ==
  served # Nothing /\ served[1].op \in {"serve", "security_example", "response_example"}
\* The rate-limit key of the request answered, and whether the limiter holds
\* a record of this second under it.
AnsweredKey ==
  RateLimitKey(IF served[1].req.client = None THEN "unknown" ELSE served[1].req.client,
               served[1].req.path)
Recorded ==
  /\ AnsweredKey \in DOMAIN requests
  /\ \E i \in DOMAIN requests[AnsweredKey] : requests[AnsweredKey][i] = Sec(now)

\* C29: a request rejected by validation (415 or 413) leaves every rate
\* window as it was, and a request of a path that is not exempt which the
\* injection screen blocks (400) is recorded in the window of its key.
C29_QuotaFollowsStageOrder ==
  Answered =>
    /\ (Rejected(415, "Unsupported Media Type")
          \/ Rejected(413, "Request Entity Too Large")) => requests = <<>>
    /\ (Rejected(400, "Invalid request") /\ served[1].req.path \notin cfg.exclude_paths)
         => Recorded

\* The screen answered a request.
Screened == served # Nothing /\ served[1].op = "screen"
\* The body as a text: the flattened parsed object, or the text sent.
BodyText(body) == IF body.encoding = "json" THEN StrBody(body.data) ELSE body.data[1]
BodyMatches(req) == req.body # Nothing /\ CheckSqlInjection(BodyText(req.body[1]))
QueryMatches(req) ==
  CheckSqlInjection(StrQueryParams(req.query)) \/ CheckSqlInjection(StrPathParams)

\* C30: a request with a mutating method (POST, PUT, PATCH, DELETE) whose
\* body, of any encoding, matches a pattern is flagged, and blocked with 400
\* under block_suspicious; with another method the body is not screened: the
\* request is flagged only for its query or path parameters.
C30_BodyScreening ==
  Screened =>
    /\ (served[1].req.method \in {"POST", "PUT", "PATCH", "DELETE"} /\ BodyMatches(served[1].req)) =>
         /\ Matches(served[1].req)
         /\ stages.block_suspicious => Rejected(400, "Invalid request")
    /\ served[1].req.method \notin {"POST", "PUT", "PATCH", "DELETE"} =>
         (Matches(served[1].req) <=> QueryMatches(served[1].req))

\* The configuration and the state of the stage instances other than the
\* rate limiter's counter store.
InstanceState == <<cfg, settings, stages, alerts>>

\* C25: processing a request writes no state that outlives the request,
\* the rate limiter's counter store left aside: the instances of the stages
\* are after a request as they were before it.
C25_OnlyCounterStoreShared ==
  [][served' # served => InstanceState' = InstanceState]_vars

\* C36: a request that ends in an exception sends an alert exactly when the
\* exceptions counted since the last alert, this one included, exceed
\* alert_threshold and more than alert_interval seconds have passed since the
\* last alert; the alert resets the count to zero and sets the time of the
\* last alert, and nothing else resets the count.
C36_ErrorAlerting ==
  [][served' # served =>
       LET raised == served'[1].raised # Nothing
           counted == alerts.error_count + 1
           due == /\ counted > alerts.alert_threshold
                  /\ Sec(now) - alerts.last_alert_time > alerts.alert_interval
       IN /\ served'[1].alerted <=> (raised /\ due)
          /\ alerts' = IF served'[1].alerted
                       THEN [alerts EXCEPT !.error_count = 0, !.last_alert_time = Sec(now)]
                       ELSE IF raised THEN [alerts EXCEPT !.error_count = counted]
                       ELSE alerts]_vars

\* C37: an exception the handler raises comes back through ResponseMiddleware,
\* RequestLoggingMiddleware and ErrorLoggingMiddleware as the same exception,
\* reaches ExceptionHandlerMiddleware and is counted once by the error logger.
C37_ObserversReraise ==
  [][(served' # served /\ served'[1].op = "observe" /\ served'[1].raised # Nothing) =>
       /\ served'[1].reached.kind = "exception"
       /\ served'[1].reached.exc = served'[1].raised
       /\ served'[1].out.caught = served'[1].raised
       /\ alerts'.error_count = IF served'[1].alerted THEN 0
                                ELSE alerts.error_count + 1]_vars

\* ------------------------------------------------------ the boundary's claims
\* The error boundary answered an exception.
Translated == served # Nothing /\ served[1].op = "boundary"
\* The branch of the translator a response came from, by its status and code.
Branch(out) ==
  IF ~IsEnvelope(out) THEN "none"
  ELSE IF out.content.error_code = 4000 /\ out.status = 400
          /\ out.content.message = "Validation error" THEN "validation"
  ELSE IF out.content.error_code = 5000 /\ out.status = 500
          /\ out.content.message = "Database error occurred" THEN "storage"
  ELSE IF out.content.error_code = 5001 /\ out.status = 500
          /\ out.content.message = "Internal server error" THEN "unknown"
  ELSE "application"

C15_NoInternalDetail ==
  (served # Nothing /\ served[1].op \in {"boundary", "global"} /\ ~settings.DEBUG
     /\ served[1].raised[1].classes \cap {"AppException", "PydanticValidationError"} = {}) =>
    IF served[1].op = "global"
    THEN Out.content = [message |-> "Internal Server Error", detail |-> "An error occurred"]
    ELSE Out.content =
           ErrorResponse(IF "SQLAlchemyError" \in served[1].raised[1].classes
                         THEN 5000 ELSE 5001,
                         IF "SQLAlchemyError" \in served[1].raised[1].classes
                         THEN "Database error occurred" ELSE "Internal server error",
                         Nothing, served[1].request_id)
\* A storage error was answered with DEBUG off.
C15_Witness ==
  /\ Translated /\ ~settings.DEBUG
  /\ served[1].raised[1].classes = {"SQLAlchemyError"}
  /\ served[1].raised[1].message = "relation users: connection refused"
  /\ Out.content.details = Nothing

\* ------------------------------------------------- the header stage's claims
\* The security-headers stage was applied to a response.
HeadersApplied == applied # Nothing /\ applied[1].op = "security_headers"

\* C21: the security-headers stage applied twice leaves the headers it
\* leaves when applied once; after it each security header occurs once, with
\* its fixed value, whatever the response carried before, and the other
\* headers are the ones the response carried.
C21_SecurityHeadersIdempotent ==
  HeadersApplied =>
    LET before == applied[1].before
        once == applied[1].once
    IN /\ applied[1].twice = once
       /\ \A h \in DOMAIN SecurityHeaders :
            /\ Cardinality(HeaderIndexes(once, h)) = 1
            /\ GetHeader(once, h) = SecurityHeaders[h]
       /\ SelectSeq(once, LAMBDA p : p[1] \notin DOMAIN SecurityHeaders)
            = SelectSeq(before, LAMBDA p : p[1] \notin DOMAIN SecurityHeaders)
\* The response carried X-Frame-Options twice, with two values.
C21_Witness ==
  /\ HeadersApplied
  /\ Cardinality(HeaderIndexes(applied[1].before, "X-Frame-Options")) = 2
  /\ GetHeader(applied[1].before, "X-Frame-Options") = "SAMEORIGIN"
  /\ GetHeader(applied[1].once, "X-Frame-Options") = "DENY"

\* ----------------------------------------------- the request logger's claims
\* C35: in the "Request received" record every header whose lower-cased name
\* is in the sensitive set is logged as "***" and every other header with its
\* value, so the record is the one of any request that differs only in the
\* values of sensitive headers.
C35_SensitiveHeadersMasked ==
  (applied # Nothing /\ applied[1].op = "request_logging" /\ applied[1].records # <<>>) =>
    LET a == applied[1]
        logged == a.records[1]
        Sensitive(k) == Lower(k) \in a.m.sensitive_headers
    IN /\ logged.message = "Request received"
       /\ DOMAIN logged.headers = DOMAIN a.headers
       /\ \A k \in DOMAIN a.headers :
            logged.headers[k] = IF Sensitive(k) THEN "***" ELSE a.headers[k]
       /\ \A other \in HeaderDicts :
            (/\ DOMAIN other = DOMAIN a.headers
             /\ \A k \in DOMAIN other : ~Sensitive(k) => other[k] = a.headers[k])
              => LogRequest(a.m, a.req, other, a.request_id[1]) = logged
\* A request with an authorization and a cookie header was logged by a
\* middleware with the default sensitive set.
C35_Witness ==
  /\ applied # Nothing /\ applied[1].op = "request_logging" /\ applied[1].records # <<>>
  /\ applied[1].m.sensitive_headers = {"authorization", "cookie"}
  /\ DOMAIN applied[1].headers = {"authorization", "Cookie", "accept"}
  /\ applied[1].records[1].headers["Cookie"] = "***"
  /\ applied[1].records[1].headers["accept"] = "b"

=============================================================================
